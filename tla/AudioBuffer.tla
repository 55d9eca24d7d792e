----------------------------- MODULE AudioBuffer ----------------------------
(* The sliding window of audio the speech recognizer works on, AudioBuffer of *)
(* ai/whisper.rs.  Its capacity is what a sample rate and a duration come to  *)
(* in whole samples, which may be none at all: then the first push takes the  *)
(* oldest sample out of an empty vector, and panics.  A transcription cuts    *)
(* the window into overlapping frames; one on a window that is shorter than a *)
(* frame panics too: the subtraction underflows or, where it wraps, there is  *)
(* no room for so many frames.  The recognition itself is a placeholder.      *)
EXTENDS Integers, SequencesExt

CONSTANTS Samples,
          Formats,   \* <<sample rate, duration in ms>> callers ask for
          Chunks,    \* the slices callers push
          NFft, Hop  \* samples of a frame, and between two: 400 and 160

AudioAssumption ==
  /\ Formats \subseteq Nat \X Nat
  /\ Chunks \subseteq Seq(Samples)
  /\ NFft \in Nat \ {0} /\ Hop \in Nat \ {0}

VARIABLES buffer, capacity,
          panicked,
          frames,    \* the last transcription: its samples and frames
          pushed     \* ghost: the slice pushed last

vars == <<buffer, capacity, panicked, frames, pushed>>

NoFrames == [samples |-> 0, count |-> 0]

CapacityOf(format) == (format[1] * format[2]) \div 1000

Init ==
  /\ \E f \in Formats : capacity = CapacityOf(f)
  /\ buffer = <<>>
  /\ panicked = FALSE /\ frames = NoFrames /\ pushed = <<>>

(* One turn of the loop of push.                                              *)
PushOne_KeepsOldest(window, sample) ==      \* fault: overwrites the newest
  IF Len(window) < capacity THEN Append(window, sample)
                            ELSE Append(Front(window), sample)
PushOne(window, sample) ==
  IF Len(window) < capacity THEN Append(window, sample)
                            ELSE Append(Tail(window), sample)

push(samples) ==
  IF samples # <<>> /\ capacity = 0
    THEN panicked' = TRUE /\ UNCHANGED <<buffer, capacity, frames, pushed>>
    ELSE /\ buffer' = FoldLeft(PushOne, buffer, samples)
         /\ pushed' = samples
         /\ UNCHANGED <<capacity, panicked, frames>>

clear == buffer' = <<>> /\ UNCHANGED <<capacity, panicked, frames, pushed>>

(* preprocess_audio, of the samples get_samples gives.                        *)
NFrames_RoundsUp(n) == (n - NFft + Hop - 1) \div Hop + 1   \* fault: counts a frame cut short
NFrames(n) == (n - NFft) \div Hop + 1

transcribe ==
  /\ IF Len(buffer) < NFft
       THEN panicked' = TRUE /\ UNCHANGED frames
       ELSE /\ frames' = [samples |-> Len(buffer), count |-> NFrames(Len(buffer))]
            /\ UNCHANGED panicked
  /\ UNCHANGED <<buffer, capacity, pushed>>

Next ==
  /\ ~panicked
  /\ (\E samples \in Chunks : push(samples)) \/ clear \/ transcribe

Spec == Init /\ [][Next]_vars

---------------------------------------------------------------------------
(* The window never outgrows its capacity ("Should not exceed capacity",      *)
(* ai/tests.rs:134).                                                          *)
TypeOK ==
  /\ buffer \in Seq(Samples) /\ Len(buffer) <= capacity
  /\ capacity \in Nat
  /\ frames.samples \in 0 .. capacity /\ frames.count \in 0 .. capacity
  /\ panicked \in BOOLEAN /\ pushed \in Chunks \cup {<<>>}

(* Every frame a transcription counts lies within the window, and one more    *)
(* would not; a full window that holds a frame can always be transcribed, and *)
(* nothing panics but a window too short.                                     *)
Within(count, samples) == (count - 1) * Hop + NFft <= samples
FramesFitTheWindow ==
  /\ frames # NoFrames =>
       Within(frames.count, frames.samples) /\ ~Within(frames.count + 1, frames.samples)
  /\ panicked => capacity = 0 \/ Len(buffer) < NFft

(* However the samples arrive in slices, longer than the window or shorter,   *)
(* the window is the newest of all samples pushed since it was last cleared.  *)
Window == INSTANCE BoundedQueue WITH
            Slices <- Chunks, Overflow <- "oldest", Nothing <- FALSE,
            items <- buffer, got <- FALSE
WindowSpec == Window!QueueSpec
=============================================================================
