---------------------------- MODULE StepChannels ----------------------------
(***************************************************************************)
(* The steps of one execution layer of an operation, running concurrently  *)
(* and joined by FIFOs: worker/src/models/operation/handler/execution.rs.  *)
(* The worker holds an O_RDWR keep-alive descriptor on every FIFO with a   *)
(* known producer, unless opening it failed.  When the producer's step has *)
(* resolved, a release loop drops and restores it until the consumer's     *)
(* step has resolved too, or the runaway guard ends the loop.  The         *)
(* kernel's FIFO rules (an open waits for the other end, a read ends when  *)
(* no writer is left, the buffer goes with the last descriptor) are        *)
(* external.  One unit of data stands for whatever fills a buffer slot.    *)
(***************************************************************************)
EXTENDS Naturals

CONSTANTS
  Steps,       \* the steps of the layer
  Channels,    \* the FIFOs with an identified producer
  Producer,    \* producer_of: Channels -> Steps
  Consumer,    \* consumer_of: Channels -> Steps
  Orphans,     \* channels that no step of the layer consumes
  Capacity,    \* what a FIFO buffers
  MaxWrites    \* bound: units written to a channel

VARIABLES
  step,    \* "start", "run", "release" (resolved, releasing), "over"
  rd,      \* the consumer's end of each channel
  wr,      \* the producer's end
  keep,    \* the keep-alive descriptor: "held", "dropped", "released",
           \* "absent" (it could not be opened), "abandoned" (runaway guard)
  buf,     \* units in the FIFO
  sent,    \* units written so far
  got,     \* units read so far
  eof      \* the consumer has read end of file

channelVars == <<step, rd, wr, keep, buf, sent, got, eof>>

ends == <<rd, wr, buf, sent, got, eof>>

Init ==
  /\ step = [s \in Steps |-> "start"]
  /\ rd = [c \in Channels |-> "no"]
  /\ wr = [c \in Channels |-> "no"]
  /\ keep \in [Channels -> {"held", "absent"}]
  /\ buf = [c \in Channels |-> 0]
  /\ sent = [c \in Channels |-> 0]
  /\ got = [c \in Channels |-> 0]
  /\ eof = [c \in Channels |-> FALSE]

----------------------------------------------------------------------------
(* The kernel.  The keep-alive is both a reader and a writer.              *)
HasReader(c) == keep[c] = "held" \/ rd[c] \in {"opening", "open", "reading"}
HasWriter(c) == keep[c] = "held" \/ wr[c] \in {"opening", "open", "writing"}

(* What is left in the FIFO when its descriptors are these: the buffer is  *)
(* discarded with the last of them.                                        *)
Left(c, k, r, w) ==
  IF k = "held" \/ r \in {"opening", "open", "reading"}
                \/ w \in {"opening", "open", "writing"}
  THEN buf[c] ELSE 0

Produces(s) == {c \in Channels : Producer[c] = s}
Consumes(s) == {c \in Channels : Consumer[c] = s}

Blocked(s) ==
  \/ \E c \in Consumes(s) : rd[c] \in {"opening", "reading"}
  \/ \E c \in Produces(s) : wr[c] \in {"opening", "writing"}

Runs(s) == step[s] = "run" /\ ~Blocked(s)

----------------------------------------------------------------------------
(* The steps: isolate or the program opens the FIFOs it was given, in any  *)
(* order or never, reads and writes, and exits.                            *)
Spawn(s) ==
  /\ step[s] = "start"
  /\ step' = [step EXCEPT ![s] = "run"]
  /\ UNCHANGED <<keep, ends>>

(* open(O_RDONLY): waits for a writer, and lets a waiting writer go on.    *)
OpenRead(c) ==
  /\ c \notin Orphans
  /\ Runs(Consumer[c])
  /\ rd[c] = "no"
  /\ rd' = [rd EXCEPT ![c] = IF HasWriter(c) THEN "open" ELSE "opening"]
  /\ wr' = [wr EXCEPT ![c] = IF @ = "opening" THEN "open" ELSE @]
  /\ UNCHANGED <<step, keep, buf, sent, got, eof>>

(* open(O_WRONLY): waits for a reader, and lets a waiting reader go on.    *)
OpenWrite(c) ==
  /\ Runs(Producer[c])
  /\ wr[c] = "no"
  /\ wr' = [wr EXCEPT ![c] = IF HasReader(c) THEN "open" ELSE "opening"]
  /\ rd' = [rd EXCEPT ![c] = IF @ = "opening" THEN "open" ELSE @]
  /\ UNCHANGED <<step, keep, buf, sent, got, eof>>

StartRead(c) ==
  /\ Runs(Consumer[c])
  /\ rd[c] = "open"
  /\ ~eof[c]
  /\ rd' = [rd EXCEPT ![c] = "reading"]
  /\ UNCHANGED <<step, keep, wr, buf, sent, got, eof>>

ReadData(c) ==
  /\ rd[c] = "reading"
  /\ buf[c] > 0
  /\ buf' = [buf EXCEPT ![c] = @ - 1]
  /\ got' = [got EXCEPT ![c] = @ + 1]
  /\ rd' = [rd EXCEPT ![c] = "open"]
  /\ UNCHANGED <<step, keep, wr, sent, eof>>

ReadEof(c) ==
  /\ rd[c] = "reading"
  /\ buf[c] = 0
  /\ ~HasWriter(c)
  /\ eof' = [eof EXCEPT ![c] = TRUE]
  /\ rd' = [rd EXCEPT ![c] = "open"]
  /\ UNCHANGED <<step, keep, wr, buf, sent, got>>

StartWrite(c) ==
  /\ Runs(Producer[c])
  /\ wr[c] = "open"
  /\ sent[c] < MaxWrites
  /\ wr' = [wr EXCEPT ![c] = "writing"]
  /\ UNCHANGED <<step, keep, rd, buf, sent, got, eof>>

(* The keep-alive counts as a reader: with the buffer full and nobody      *)
(* reading, the write waits.                                               *)
WriteData(c) ==
  /\ wr[c] = "writing"
  /\ HasReader(c)
  /\ buf[c] < Capacity
  /\ buf' = [buf EXCEPT ![c] = @ + 1]
  /\ sent' = [sent EXCEPT ![c] = @ + 1]
  /\ wr' = [wr EXCEPT ![c] = "open"]
  /\ UNCHANGED <<step, keep, rd, got, eof>>

(* EPIPE: the reader is gone and there is no keep-alive.                   *)
WriteFails(c) ==
  /\ wr[c] = "writing"
  /\ ~HasReader(c)
  /\ wr' = [wr EXCEPT ![c] = "closed"]
  /\ buf' = [buf EXCEPT ![c] = Left(c, keep[c], rd[c], "closed")]
  /\ UNCHANGED <<step, keep, rd, sent, got, eof>>

(* execute_step_with_deps returns (also when the sandbox could not start   *)
(* the program at all, or the step was skipped): the process's             *)
(* descriptors are gone, the step's consumer flag is raised, and only then *)
(* are the keep-alives of the channels it produces released.               *)
Resolve(s) ==
  LET r == [c \in Channels |-> IF c \in Consumes(s) THEN "closed" ELSE rd[c]]
      w == [c \in Channels |-> IF c \in Produces(s) THEN "closed" ELSE wr[c]]
  IN /\ rd' = r
     /\ wr' = w
     /\ buf' = [c \in Channels |-> Left(c, keep[c], r[c], w[c])]
     /\ UNCHANGED <<keep, sent, got, eof>>

Finish(s) ==
  /\ step[s] = "start" \/ Runs(s)
  /\ step' = [step EXCEPT ![s] = "release"]
  /\ Resolve(s)

(* A program blocked on a FIFO is killed by isolate's wall time, or isolate *)
(* itself by the worker's hard timeout.                                     *)
TimeOut(s) ==
  /\ step[s] = "run" /\ Blocked(s)
  /\ step' = [step EXCEPT ![s] = "release"]
  /\ Resolve(s)

----------------------------------------------------------------------------
(* Mutant: the consumer flag is raised only after the step's own releases. *)
DoneWhenOver(s) == step[s] = "over"

(* release_channel_keepalive, one loop per channel, all of a step's        *)
(* channels concurrently.                                                  *)
Done(s) == step[s] \in {"release", "over"}

Releasing(c) == step[Producer[c]] = "release"

(* An identified consumer that has not resolved is still to be served.     *)
Waits(c) == c \notin Orphans /\ ~Done(Consumer[c])

(* Mutant: the keep-alive is dropped although output is still buffered.    *)
MayDropBuffered(c) == TRUE

(* The keep-alive stays while the FIFO has buffered input for a consumer   *)
(* that is still to be served.                                             *)
MayDrop(c) == Waits(c) => buf[c] = 0

Drop(c) ==
  /\ Releasing(c)
  /\ keep[c] = "held"
  /\ MayDrop(c)
  /\ keep' = [keep EXCEPT ![c] = "dropped"]
  /\ buf' = [buf EXCEPT ![c] = Left(c, "dropped", rd[c], wr[c])]
  /\ UNCHANGED <<step, rd, wr, sent, got, eof>>

(* Opening O_RDWR never blocks and wakes a consumer waiting in its open.   *)
Restore(c) ==
  /\ Releasing(c)
  /\ keep[c] = "dropped"
  /\ Waits(c)
  /\ keep' = [keep EXCEPT ![c] = "held"]
  /\ rd' = [rd EXCEPT ![c] = IF @ = "opening" THEN "open" ELSE @]
  /\ UNCHANGED <<step, wr, buf, sent, got, eof>>

LetGo(c) ==
  /\ Releasing(c)
  /\ keep[c] = "dropped"
  /\ ~Waits(c)
  /\ keep' = [keep EXCEPT ![c] = "released"]
  /\ UNCHANGED <<step, ends>>

(* What the loop does next.                                                *)
ReleaseStep(c) == Drop(c) \/ Restore(c) \/ LetGo(c)

(* CHANNEL_RELEASE_MAX_WAIT: the loop ends over a consumer that is still   *)
(* running, and over what is buffered for it.                              *)
GiveUp(c) ==
  /\ Releasing(c)
  /\ keep[c] \in {"held", "dropped"}
  /\ Waits(c)
  /\ keep' = [keep EXCEPT ![c] = "abandoned"]
  /\ buf' = [buf EXCEPT ![c] = Left(c, "abandoned", rd[c], wr[c])]
  /\ UNCHANGED <<step, rd, wr, sent, got, eof>>

(* The step's future completes; join_all waits for every step's.  A channel *)
(* without a keep-alive has no release loop.                                *)
Over(s) ==
  /\ step[s] = "release"
  /\ \A c \in Produces(s) : keep[c] \in {"released", "absent", "abandoned"}
  /\ step' = [step EXCEPT ![s] = "over"]
  /\ UNCHANGED <<keep, ends>>

Program(s) == Spawn(s) \/ Finish(s) \/ TimeOut(s)

Channel(c) ==
  \/ OpenRead(c) \/ OpenWrite(c)
  \/ StartRead(c) \/ ReadData(c) \/ ReadEof(c)
  \/ StartWrite(c) \/ WriteData(c) \/ WriteFails(c)
  \/ ReleaseStep(c) \/ GiveUp(c)

Next ==
  \/ \E s \in Steps : Program(s) \/ Over(s)
  \/ \E c \in Channels : Channel(c)

Spec == Init /\ [][Next]_channelVars

----------------------------------------------------------------------------
TypeOK ==
  /\ step \in [Steps -> {"start", "run", "release", "over"}]
  /\ rd \in [Channels -> {"no", "opening", "open", "reading", "closed"}]
  /\ wr \in [Channels -> {"no", "opening", "open", "writing", "closed"}]
  /\ keep \in [Channels -> {"held", "dropped", "released", "absent", "abandoned"}]
  /\ buf \in [Channels -> 0 .. Capacity]
  /\ sent \in [Channels -> 0 .. MaxWrites]
  /\ got \in [Channels -> 0 .. MaxWrites]
  /\ eof \in [Channels -> BOOLEAN]

(* An identified consumer that reads end of file has read everything the   *)
(* producer wrote, even if the producer resolved before the consumer       *)
(* opened the FIFO: an empty read would be scored as a wrong answer.  With *)
(* or without a keep-alive; only the runaway guard can lose output.        *)
NoOutputLost ==
  \A c \in Channels \ Orphans :
    eof[c] /\ keep[c] # "abandoned" => got[c] = sent[c]

(* The future of a resolved step completes, if blocked programs time out:  *)
(* two steps that feed each other do not wait for each other's flags.  A   *)
(* program that writes to a full FIFO whose consumer left it unread has    *)
(* the keep-alive for a reader, and only its timeout ends the wait.        *)
ReleaseEnds == \A s \in Steps : step[s] = "release" ~> step[s] = "over"

(* A consumer waits in vain on the open or the read of a FIFO whose        *)
(* producer has resolved.                                                  *)
Wedged(c) ==
  /\ Done(Producer[c])
  /\ rd[c] \in {"opening", "reading"}
  /\ rd[c] = "opening" => keep[c] \notin {"absent", "abandoned"}

(* A resolved producer wedges no consumer in its open or its read (also    *)
(* when the producer never started), and no timeout is needed for that:    *)
(* each drop of the keep-alive ends a read, each restoration ends an open. *)
(* Without a keep-alive, or once the guard gave up, this holds for reads.  *)
ReadersServed ==
  \A c \in Channels \ Orphans :
    Wedged(c) ~> (rd[c] \notin {"opening", "reading"} \/ keep[c] = "abandoned")

============================================================================
