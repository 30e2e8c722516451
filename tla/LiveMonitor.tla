---------------------------- MODULE LiveMonitor ----------------------------
(***************************************************************************)
(* The throughput the panel shows (backend/internal/traffic/live.go): one  *)
(* goroutine keeps one stream to sing-box open and publishes its latest    *)
(* sample, which requests read without waiting.                            *)
(*                                                                         *)
(* A sample is identified by the run of sing-box that sent it and its      *)
(* number in that run; runs are numbered from 1.                           *)
(***************************************************************************)
EXTENDS Naturals, Sequences

CONSTANTS Zero,                \* Live{}: no throughput
          MaxRuns, MaxSamples  \* bounds

Sample == [run : 1..MaxRuns, n : 1..MaxSamples]

ASSUME LiveAssumption == MaxRuns \in Nat /\ MaxSamples \in Nat /\ Zero \notin Sample

VARIABLES
  run, up, sent,  \* sing-box: number of its latest run, is it up, samples sent in it
  stream, wire,   \* the run the open stream comes from (0: none), and what is on its way
  latest,         \* LiveMonitor.latest
  hadSample, pc,  \* of Run
  cancelled,      \* the context
  ended           \* history: streams and attempts that ended since latest was published

singbox == <<run, up, sent>>
liveVars == <<singbox, stream, wire, latest, hadSample, pc, cancelled, ended>>

LiveInit ==
  /\ run = 0 /\ up = FALSE /\ sent = 0
  /\ stream = 0 /\ wire = <<>> /\ latest = Zero
  /\ hadSample = FALSE /\ pc = "check" /\ cancelled = FALSE /\ ended = 0

Shown(x) == latest' = x /\ ended' = 0

-----------------------------------------------------------------------------
(* sing-box and the context.                                               *)

SingboxStarts ==
  /\ ~up /\ run < MaxRuns /\ run' = run + 1 /\ up' = TRUE /\ sent' = 0
  /\ UNCHANGED <<stream, wire, latest, hadSample, pc, cancelled, ended>>

SingboxEnds ==
  /\ up /\ up' = FALSE
  /\ UNCHANGED <<run, sent, stream, wire, latest, hadSample, pc, cancelled, ended>>

\* A line of JSON once a second, to whoever has a stream open; one that does not
\* parse is skipped by the reader and is as if it had not been sent.
Tick ==
  /\ up /\ sent < MaxSamples /\ sent' = sent + 1
  /\ wire' = IF stream = run THEN Append(wire, [run |-> run, n |-> sent']) ELSE wire
  /\ UNCHANGED <<run, up, stream, latest, hadSample, pc, cancelled, ended>>

Cancel ==
  /\ ~cancelled /\ cancelled' = TRUE
  /\ UNCHANGED <<singbox, stream, wire, latest, hadSample, pc, ended>>

-----------------------------------------------------------------------------
(* LiveMonitor.Run                                                         *)

Goto(l) == pc' = l /\ UNCHANGED <<singbox, cancelled>>

\* the last rate stays on display while sing-box is down
FaultyCheck ==
  /\ pc = "check" /\ UNCHANGED <<stream, wire, hadSample, latest, ended>>
  /\ Goto(IF cancelled THEN "end" ELSE IF up THEN "open" ELSE "wait")

Check ==
  /\ pc = "check" /\ UNCHANGED <<stream, wire, hadSample>>
  /\ \/ cancelled /\ Goto("end") /\ UNCHANGED <<latest, ended>>
     \/ ~cancelled /\ up /\ Goto("open") /\ UNCHANGED <<latest, ended>>
     \/ ~cancelled /\ ~up /\ Shown(Zero) /\ Goto("wait")

\* Refused, answered with an error or cancelled; or a stream, also just after a restart.
Open ==
  /\ pc = "open" /\ hadSample' = FALSE /\ wire' = <<>>
  /\ \/ up /\ ~cancelled /\ stream' = run /\ Goto("read") /\ UNCHANGED <<latest, ended>>
     \/ UNCHANGED stream /\ Shown(Zero) /\ Goto("wait")

ReadSample ==
  /\ pc = "read" /\ wire # <<>>
  /\ Shown(Head(wire)) /\ wire' = Tail(wire) /\ hadSample' = TRUE
  /\ \/ cancelled /\ stream' = 0 /\ Goto("end")
     \/ ~cancelled /\ UNCHANGED stream /\ Goto("read")

\* a stream that never sent anything keeps the old rate on display, too
FaultyEndOfStream ==
  /\ pc = "read" /\ wire = <<>> /\ ~cancelled /\ stream' = 0 /\ Goto("wait")
  /\ ended' = ended + 1 /\ UNCHANGED <<latest, wire, hadSample>>

\* io.EOF, once what was sent has been read.
EndOfStream ==
  /\ pc = "read" /\ wire = <<>> /\ ~cancelled /\ stream' = 0 /\ Goto("wait")
  /\ UNCHANGED <<wire, hadSample>>
  /\ IF hadSample THEN ended' = ended + 1 /\ UNCHANGED latest ELSE Shown(Zero)

\* The end that is sure to come: with the sing-box the stream is from; or closed
\* after a cancellation, when nothing is published.
ReadEnds ==
  \/ ~(up /\ run = stream) /\ EndOfStream
  \/ /\ pc = "read" /\ cancelled /\ stream' = 0 /\ wire' = <<>> /\ Goto("end")
     /\ UNCHANGED <<latest, ended, hadSample>>

\* sing-box may also end a stream and stay up.
StreamCloses == up /\ run = stream /\ EndOfStream

\* the body of a failed stream is not closed
FaultyReadFails ==
  /\ pc = "read" /\ ~cancelled /\ wire' = <<>> /\ UNCHANGED <<stream, hadSample>>
  /\ Shown(Zero) /\ Goto("wait")

\* Any other error of the stream, samples or not.
ReadFails ==
  /\ pc = "read" /\ ~cancelled /\ stream' = 0 /\ wire' = <<>> /\ UNCHANGED hadSample
  /\ Shown(Zero) /\ Goto("wait")

Wait ==
  /\ pc = "wait" /\ UNCHANGED <<stream, wire, latest, hadSample, ended>>
  /\ Goto(IF cancelled THEN "end" ELSE "check")

Run == Check \/ Open \/ ReadSample \/ ReadEnds \/ Wait
LiveNext == SingboxStarts \/ SingboxEnds \/ Tick \/ Cancel \/ StreamCloses \/ ReadFails \/ Run

LiveSpec == LiveInit /\ [][LiveNext]_liveVars

\* The loop goes on: requests are answered or refused, and the kernel closes the
\* connections of a process that is gone.
LiveFairSpec == LiveSpec /\ WF_liveVars(Run)

-----------------------------------------------------------------------------
(* The state is well formed, and a stream is open exactly while it is      *)
(* read: none is left behind by the way its reading ended.                 *)
LiveTypeOK ==
  /\ run \in 0..MaxRuns /\ up \in BOOLEAN /\ sent \in 0..MaxSamples
  /\ stream \in 0..run /\ wire \in Seq(Sample) /\ latest \in Sample \cup {Zero}
  /\ hadSample \in BOOLEAN /\ pc \in {"check", "open", "read", "wait", "end"}
  /\ cancelled \in BOOLEAN /\ ended \in Nat
  /\ stream # 0 <=> pc = "read"

(* The rate on display is one the open stream sent, or outlived exactly    *)
(* one stream: a reconnect does not blank the display, but a rate never    *)
(* survives a second stream without a sample, nor a refused reconnect.     *)
RateIsCurrent ==
  latest # Zero =>
    /\ ended <= 1
    /\ pc = "read" /\ hadSample => latest.run = stream
    /\ ended = 0 => hadSample

(* When sing-box is gone for good the rate on display becomes zero, unless *)
(* the panel is being shut down, and then the monitor ends.                *)
DownShowsZero == []<>(up \/ latest = Zero \/ pc = "end")
=============================================================================
