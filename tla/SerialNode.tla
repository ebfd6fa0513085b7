----------------------------- MODULE SerialNode -----------------------------
(***************************************************************************)
(* my_serial_node.cpp on the serial library (unix.cc): one thread that     *)
(* handles the messages that have come, writes a frame to the base for     *)
(* each velocity command, and then reads one odometry frame.               *)
(*                                                                         *)
(* The 16 bytes of a command frame are three parts here (mode, velocity,   *)
(* bucket) and the 27 bytes of an odometry frame too (header, payload,     *)
(* check sum).  A part of an odometry frame is [f, i]: frame and place; the *)
(* check sum tells parts of different frames apart, and a header cannot be *)
(* found elsewhere in a frame.  Nothing in either stream but its length    *)
(* tells where a frame starts.                                             *)
(***************************************************************************)
EXTENDS Integers, Sequences, FiniteSets, SequencesExt

CONSTANTS
  Velocities,    \* the velocity commands
  Buckets,       \* the bucket commands
  Zero,          \* what s_buffer holds at first
  MaxFrames,     \* bound: the odometry frames of the base
  PortSize,      \* the parts that the port buffers; what comes on top is lost
  MaxInbox,      \* bound: the messages that wait
  MayFail        \* writes may time out, and the port may be unplugged

ASSUME SerialAssumption ==
  /\ MaxFrames \in Nat /\ PortSize \in Nat /\ MaxInbox \in Nat
  /\ Velocities \cap Buckets = {} /\ Zero \notin Velocities \cup Buckets
  /\ MayFail \in BOOLEAN

FrameLength == 3

VARIABLES
  inbox,      \* the messages in the callback queue, in the order they came
  left,       \* how many of them spinOnce has still to handle
  pc,         \* where main() is
  velocity,   \* s_buffer[1..4]
  bucket,     \* s_buffer[5..8]
  unsent,     \* history: bucket has changed since the last velocity command
  sent,       \* the last whole frame on the wire
  torn,       \* history: a write has timed out
  port,       \* the bytes that have come from the base
  buffer,     \* r_buffer, as far as read() has filled it
  base,       \* the part that the base sends next
  paused,     \* the base is silent for longer than a read takes
  aligned,    \* history: since the last pause the base sent whole frames, none lost
  published,  \* the frames of the odometry messages, 0 for one without payload
  plugged     \* the port is connected

readVars == <<port, buffer, base, paused, aligned, published>>
writeVars == <<inbox, left, velocity, bucket, unsent, sent, torn>>
vars == <<pc, readVars, writeVars, plugged>>

Part == [f : 1..MaxFrames, i : 1..FrameLength]

TypeOK ==
  /\ inbox \in Seq(Velocities \cup Buckets)
  /\ left \in 0..Len(inbox)
  /\ pc \in {"spin", "write", "read", "sleep", "dead"}
  /\ velocity \in Velocities \cup {Zero} /\ bucket \in Buckets \cup {Zero}
  /\ torn \in BOOLEAN /\ unsent \in BOOLEAN
  /\ sent \in (Velocities \cup {Zero}) \X (Buckets \cup {Zero})
  /\ port \in Seq(Part) /\ Len(port) <= PortSize
  /\ buffer \in Seq(Part) /\ Len(buffer) <= FrameLength
  /\ base \in [f : 1..(MaxFrames + 1), i : 1..FrameLength]
  /\ paused \in BOOLEAN /\ aligned \in BOOLEAN /\ plugged \in BOOLEAN
  /\ published \in Seq(0..MaxFrames)

\* The port is opened while the base may be in the middle of a frame.
Init ==
  /\ inbox = <<>> /\ left = 0 /\ pc = "sleep"
  /\ velocity = Zero /\ bucket = Zero /\ unsent = FALSE
  /\ sent = <<Zero, Zero>> /\ torn = FALSE
  /\ port = <<>> /\ buffer = <<>>
  /\ base \in [f : {1}, i : 1..FrameLength]
  /\ paused = FALSE /\ aligned = (base.i = 1)
  /\ published = <<>> /\ plugged = TRUE

-----------------------------------------------------------------------------
\* loop_rate.sleep, and spinOnce: the callbacks that are in the queue by now.
SpinOnce ==
  /\ pc = "sleep"
  /\ left' = Len(inbox)
  /\ pc' = "spin"
  /\ UNCHANGED <<readVars, inbox, velocity, bucket, unsent, sent, torn, plugged>>

BucketCallback ==
  /\ pc = "spin" /\ left > 0 /\ Head(inbox) \in Buckets
  /\ bucket' = Head(inbox) /\ unsent' = TRUE
  /\ inbox' = Tail(inbox) /\ left' = left - 1
  /\ UNCHANGED <<pc, readVars, velocity, sent, torn, plugged>>

VelocityCallback ==
  /\ pc = "spin" /\ left > 0 /\ Head(inbox) \in Velocities
  /\ velocity' = Head(inbox) /\ unsent' = FALSE
  /\ inbox' = Tail(inbox) /\ left' = left - 1
  /\ pc' = "write"
  /\ UNCHANGED <<readVars, bucket, sent, torn, plugged>>

\* Mutant: the frame is cleared before each command, as in the data_pack left in a
\* comment.
FrameOfCommand == <<velocity, Zero>>

Frame == <<velocity, bucket>>

\* The loop of write() until the port has taken all bytes.
Write ==
  /\ pc = "write" /\ plugged
  /\ sent' = Frame
  /\ pc' = "spin"
  /\ UNCHANGED <<readVars, inbox, left, velocity, bucket, unsent, torn, plugged>>

\* write() gives up, and its caller does not look at what it returns: the base, which
\* counts bytes, takes the frames that follow for something else.
WriteTimeout ==
  /\ pc = "write" /\ MayFail
  /\ pc' = "spin"
  /\ torn' = TRUE
  /\ UNCHANGED <<readVars, inbox, left, velocity, bucket, unsent, sent, plugged>>

-----------------------------------------------------------------------------
Available ==
  /\ pc = "spin" /\ left = 0 /\ plugged
  /\ pc' = IF port = <<>> THEN "sleep" ELSE "read"
  /\ UNCHANGED <<readVars, writeVars, plugged>>

\* One ::read: what the port has, up to the length of a frame.
Fits(n) == n <= FrameLength - Len(buffer) /\ n \in {Len(port), FrameLength - Len(buffer)}

\* The first ::read of read(), and those after waitReadable.
Read ==
  /\ pc = "read" /\ plugged
  /\ port # <<>> /\ Len(buffer) < FrameLength
  /\ \E n \in 1..Len(port) :
       /\ Fits(n)
       /\ buffer' = buffer \o SubSeq(port, 1, n)
       /\ port' = SubSeq(port, n + 1, Len(port))
  /\ UNCHANGED <<pc, writeVars, base, paused, aligned, published, plugged>>

\* data_analysis.  What a short read has not filled is zero, of the memset before
\* it: so is the check sum of no payload.
Valid ==
  /\ buffer[1].i = 1
  /\ \/ Len(buffer) = 1
     \/ Len(buffer) = FrameLength
        /\ \A i \in 2..FrameLength : buffer[i] = [f |-> buffer[2].f, i |-> i]

\* Mutants: read() returns after the first bytes; it has no time-out.
ReadBegun == buffer # <<>>
ReadWhole == Len(buffer) = FrameLength

\* read() has all, or total_timeout is over.
ReadOver == Len(buffer) = FrameLength \/ (paused /\ port = <<>>)

\* Mutant: r_buffer is looked at again after the next read.
BufferKept == UNCHANGED buffer

BufferCleared == buffer' = <<>>

Analysis ==
  /\ pc = "read" /\ ReadOver
  /\ published' = IF ~Valid THEN published
                  ELSE Append(published, IF Len(buffer) = 1 THEN 0 ELSE buffer[2].f)
  /\ BufferCleared
  /\ pc' = "sleep"
  /\ UNCHANGED <<port, base, paused, aligned, writeVars, plugged>>

Uncaught == "dead"

\* available(), read() or write() throws, and nothing in main catches it.
Throws ==
  /\ ~plugged
  /\ (pc = "spin" /\ left = 0) \/ pc = "write" \/ (pc = "read" /\ Len(buffer) < FrameLength)
  /\ pc' = Uncaught
  /\ UNCHANGED <<readVars, writeVars, plugged>>

-----------------------------------------------------------------------------
\* The world.
MessageArrives(m) ==
  /\ Len(inbox) < MaxInbox
  /\ inbox' = Append(inbox, m)
  /\ UNCHANGED <<pc, readVars, left, velocity, bucket, unsent, sent, torn, plugged>>

BaseSends ==
  /\ ~paused /\ base.f <= MaxFrames
  /\ base' = IF base.i = FrameLength THEN [f |-> base.f + 1, i |-> 1]
             ELSE [base EXCEPT !.i = @ + 1]
  /\ IF Len(port) < PortSize
     THEN port' = Append(port, base) /\ UNCHANGED aligned
     ELSE aligned' = FALSE /\ UNCHANGED port
  /\ UNCHANGED <<pc, buffer, paused, published, writeVars, plugged>>

\* The base begins another frame before it has finished one.
BaseResets ==
  /\ base.i # 1 /\ base.f < MaxFrames
  /\ base' = [f |-> base.f + 1, i |-> 1]
  /\ aligned' = FALSE
  /\ UNCHANGED <<pc, port, buffer, paused, published, writeVars, plugged>>

BasePauses ==
  /\ ~paused
  /\ paused' = TRUE
  /\ UNCHANGED <<pc, port, buffer, base, aligned, published, writeVars, plugged>>

\* The pause was long enough for the node to empty the port.
BaseResumes ==
  /\ paused /\ port = <<>> /\ buffer = <<>>
  /\ paused' = FALSE
  /\ aligned' = (base.i = 1)
  /\ UNCHANGED <<pc, port, buffer, base, published, writeVars, plugged>>

Unplug ==
  /\ MayFail /\ plugged
  /\ plugged' = FALSE
  /\ UNCHANGED <<pc, readVars, writeVars>>

Main == \/ SpinOnce \/ BucketCallback \/ VelocityCallback \/ Write \/ WriteTimeout \/ Available
        \/ Read \/ Analysis \/ Throws

World == \/ \E m \in Velocities \cup Buckets : MessageArrives(m)
         \/ BaseSends \/ BaseResets \/ BasePauses \/ BaseResumes \/ Unplug

Next == Main \/ World

\* The thread runs, and a silent base lets reads time out: the base goes on to send
\* or falls silent.
Fairness == WF_vars(Main) /\ WF_vars(BaseSends \/ BasePauses)

Spec == Init /\ [][Next]_vars /\ Fairness

-----------------------------------------------------------------------------
(***************************************************************************)
(* Since a pause, while the base sends whole frames and the port does not  *)
(* overflow, every read begins at a frame: the pause lets a read that is   *)
(* out of step time out, and is the only way back into step.  (And every   *)
(* variable has its type.)                                                 *)
(***************************************************************************)
PauseRealigns ==
  /\ TypeOK
  /\ aligned /\ buffer # <<>> => \A i \in 1..Len(buffer) : buffer[i].i = i

(***************************************************************************)
(* Odometry is published for frames that the base has sent to their end,   *)
(* in their order, each at most once.  (A message made of zeros, of a read *)
(* that was cut behind a header, is for no frame.)                         *)
(***************************************************************************)
PublishedInOrder ==
  /\ \A i, j \in DOMAIN published :
       i < j /\ published[i] # 0 /\ published[j] # 0 => published[i] < published[j]
  /\ \A i \in DOMAIN published : published[i] < base.f

(***************************************************************************)
(* Unless a write timed out, the last frame on the wire carries the latest *)
(* velocity command, and the bucket command that came before it: a later   *)
(* one waits in s_buffer for the next velocity command.                    *)
(***************************************************************************)
LastFrame ==
  ~torn /\ pc \notin {"write", "dead"} =>
    /\ sent[1] = velocity
    /\ unsent \/ sent[2] = bucket

(***************************************************************************)
(* Whatever the base does, a bucket command gets to it once there is a     *)
(* velocity command to take it along: the read that comes between holds    *)
(* the thread up, but only so long.                                        *)
(***************************************************************************)
BucketReachesBase ==
  unsent /\ Range(inbox) \cap Velocities # {}
    ~> pc # "write" /\ (~unsent \/ torn \/ pc = "dead")
=============================================================================
