----------------------------- MODULE EventRing -----------------------------
(***************************************************************************)
(* The shared-memory event ring (category/core/event): recorder threads    *)
(* reserve a descriptor and payload bytes, fill them and commit; a reader  *)
(* in another process iterates over the descriptors and copies payloads.   *)
(* No lock is taken by anybody.  Every atomic access is a step of its own. *)
(*                                                                         *)
(* An event is identified by its sequence number: a descriptor's contents  *)
(* and a payload byte are the number of the event that wrote them.  The    *)
(* plain stores of a writer (descriptor fields and payload) are one step,  *)
(* as is each plain copy of a reader: a copy that meets one foreign field  *)
(* or byte meets it in some single instant, so a coarser step loses no     *)
(* torn read.  Stores become visible in program order, as on x86-64.       *)
(***************************************************************************)
EXTENDS Integers, FiniteSets

CONSTANTS
  Writers,      \* the threads that record events
  Cap,          \* descriptor slots (desc_capacity)
  BufSize,      \* payload buffer size, in units of the payload alignment
  Incr,         \* MONAD_EVENT_WINDOW_INCR
  Sizes,        \* payload sizes the callers ask for
  Truncated,    \* RECORD_ERROR_TRUNCATED_SIZE
  MaxEvents     \* bound: events recorded in one behaviour

ASSUME RingAssumption ==
  /\ Cap \in Nat /\ Cap > 1 /\ Incr \in Nat \ {0} /\ MaxEvents \in Nat
  /\ BufSize \in Nat /\ BufSize % Incr = 0 /\ BufSize > 2 * Incr
  /\ Sizes \subseteq Nat /\ Truncated \in 0 .. BufSize - 2 * Incr - 1

VARIABLES
  last_seqno,           \* control: last sequence number handed out
  next_payload_byte,    \* control: next virtual payload offset
  buffer_window_start,  \* control: offsets below it have expired
  descriptors,          \* slot -> [seqno, id, offset, size]
  payload_buf,          \* physical unit -> id of the event stored there
  writer,               \* thread -> the reservation it is working on
  alive,                \* the recording process has not died
  reader,               \* the iterator and the call it is in
  committed,            \* history: sequence numbers that were committed
  late                  \* history: some writer was overtaken by a whole lap

control == <<last_seqno, next_payload_byte, buffer_window_start>>
ring == <<control, descriptors, payload_buf>>
vars == <<ring, writer, alive, reader, committed, late>>

(* Faulty variant: the window covers the whole buffer and more.            *)
WidthPlusIncr == BufSize + Incr
Width == BufSize - Incr
RoundUp(x) == ((x + Incr - 1) \div Incr) * Incr
Slot(seqno) == (seqno - 1) % Cap
Units(d) == {(d.offset + i) % BufSize : i \in 0 .. d.size - 1}

NoEvent == [seqno |-> 0, id |-> 0, offset |-> 0, size |-> 0]
Idle == [pc |-> "idle", seqno |-> 0, begin |-> 0, size |-> 0, seen |-> 0]

(* Faulty variant: no size limit.                                          *)
NeverTruncate(size) == size

(* The size reserved: a payload that would expire as soon as it is         *)
(* recorded is replaced by a truncated RECORD_ERROR event.                 *)
AllocSize(size) == IF size >= BufSize - 2 * Incr THEN Truncated ELSE size

TypeOK ==
  /\ last_seqno \in 0 .. MaxEvents
  /\ next_payload_byte \in Nat /\ buffer_window_start \in Int
  /\ descriptors \in [0 .. Cap - 1 -> [seqno : 0 .. MaxEvents, id : 0 .. MaxEvents,
                                       offset : Nat, size : Nat]]
  /\ payload_buf \in [0 .. BufSize - 1 -> 0 .. MaxEvents]
  /\ writer \in [Writers ->
       [pc : {"idle", "bytes", "clear", "window", "slide", "fill", "commit"},
        seqno : 0 .. MaxEvents, begin : Nat, size : Nat, seen : Int]]
  /\ reader.pc \in {"poll", "copy", "reload", "check", "memcpy", "recheck",
                    "reset", "scan", "verify"}
  /\ alive \in BOOLEAN /\ late \in BOOLEAN /\ committed \subseteq 1 .. MaxEvents

Init ==
  /\ last_seqno = 0 /\ next_payload_byte = 0 /\ buffer_window_start = 0
  /\ descriptors = [s \in 0 .. Cap - 1 |-> NoEvent]
  /\ payload_buf = [u \in 0 .. BufSize - 1 |-> 0]
  /\ writer = [w \in Writers |-> Idle]
  /\ reader = [pc |-> "reset", last |-> 0, event |-> NoEvent, bytes |-> {},
               scan |-> 0, want |-> 0, known |-> FALSE]
  /\ alive = TRUE /\ committed = {} /\ late = FALSE

-----------------------------------------------------------------------------
(* monad_event_recorder_reserve and monad_event_recorder_commit.           *)

InFlight == {w \in Writers : writer[w].pc # "idle"}
HasBytes == {w \in InFlight : writer[w].pc # "bytes"}

(* A writer is overtaken when, before it commits, the slot it reserved is  *)
(* handed out again, or more than Incr further payload bytes are.  The     *)
(* code has no defence against that; it relies on the ring being large (at *)
(* least 2^16 slots, Incr = 2^24 bytes) and on reservations being short.   *)
OvertakenBy(seqno, bytes) ==
  \/ \E w \in InFlight : seqno - writer[w].seqno >= Cap
  \/ \E w \in HasBytes : bytes - (writer[w].begin + writer[w].size) > Incr

AllocSeqno(w, size) ==
  /\ writer[w].pc = "idle" /\ last_seqno < MaxEvents
  /\ last_seqno' = last_seqno + 1
  /\ writer' = [writer EXCEPT ![w] = [Idle EXCEPT !.pc = "bytes",
                  !.seqno = last_seqno + 1, !.size = AllocSize(size)]]
  /\ late' = (late \/ OvertakenBy(last_seqno + 1, next_payload_byte))
  /\ UNCHANGED <<next_payload_byte, buffer_window_start, descriptors, payload_buf, committed>>

AllocBytes(w) ==
  /\ writer[w].pc = "bytes"
  /\ next_payload_byte' = next_payload_byte + writer[w].size
  /\ writer' = [writer EXCEPT ![w].pc = "clear", ![w].begin = next_payload_byte]
  /\ late' = (late \/ OvertakenBy(last_seqno, next_payload_byte'))
  /\ UNCHANGED <<last_seqno, buffer_window_start, descriptors, payload_buf, committed>>

(* Faulty variant: the number of the older event stays in the slot.        *)
StillPublished(w) ==
  /\ writer[w].pc = "clear"
  /\ writer' = [writer EXCEPT ![w].pc = "window"]
  /\ UNCHANGED <<ring, committed, late>>

ClearSeqno(w) ==
  /\ writer[w].pc = "clear"
  /\ descriptors' = [descriptors EXCEPT ![Slot(writer[w].seqno)].seqno = 0]
  /\ writer' = [writer EXCEPT ![w].pc = "window"]
  /\ UNCHANGED <<control, payload_buf, committed, late>>

(* The subtraction is unsigned: an end below the window start is far above *)
(* the width.                                                              *)
MustSlide(begin, size) ==
  LET distance == begin + size - buffer_window_start
  IN distance < 0 \/ distance > Width

LoadWindow(w) ==
  /\ writer[w].pc = "window"
  /\ writer' = [writer EXCEPT ![w].seen = buffer_window_start,
       ![w].pc = IF MustSlide(writer[w].begin, writer[w].size) THEN "slide" ELSE "fill"]
  /\ UNCHANGED <<ring, committed, late>>

SlideTarget(end) == RoundUp(end) - Width

(* A failed compare-and-exchange is not retried. *)
SlideWindow(w) ==
  /\ writer[w].pc = "slide"
  /\ buffer_window_start' =
       IF buffer_window_start = writer[w].seen
       THEN SlideTarget(writer[w].begin + writer[w].size)
       ELSE buffer_window_start
  /\ writer' = [writer EXCEPT ![w].pc = "fill"]
  /\ UNCHANGED <<last_seqno, next_payload_byte, descriptors, payload_buf, committed, late>>

Fill(w) ==
  LET d == [id |-> writer[w].seqno, offset |-> writer[w].begin, size |-> writer[w].size,
            seqno |-> descriptors[Slot(writer[w].seqno)].seqno]
  IN /\ writer[w].pc = "fill"
     /\ descriptors' = [descriptors EXCEPT ![Slot(writer[w].seqno)] = d]
     /\ payload_buf' = [u \in 0 .. BufSize - 1 |->
                          IF u \in Units(d) THEN d.id ELSE payload_buf[u]]
     /\ writer' = [writer EXCEPT ![w].pc = "commit"]
     /\ UNCHANGED <<control, committed, late>>

(* Faulty variant: publishes the number of the next event.                 *)
CommitNext(w) ==
  /\ writer[w].pc = "commit"
  /\ descriptors' = [descriptors EXCEPT ![Slot(writer[w].seqno)].seqno = writer[w].seqno + 1]
  /\ committed' = committed \union {writer[w].seqno}
  /\ writer' = [writer EXCEPT ![w] = Idle]
  /\ UNCHANGED <<control, payload_buf, late>>

Commit(w) ==
  /\ writer[w].pc = "commit"
  /\ descriptors' = [descriptors EXCEPT ![Slot(writer[w].seqno)].seqno = writer[w].seqno]
  /\ committed' = committed \union {writer[w].seqno}
  /\ writer' = [writer EXCEPT ![w] = Idle]
  /\ UNCHANGED <<control, payload_buf, late>>

Reserve(w) ==
  AllocBytes(w) \/ ClearSeqno(w) \/ LoadWindow(w) \/ SlideWindow(w) \/ Fill(w) \/ Commit(w)

(* The recording process dies: no writer takes another step. *)
Die == alive /\ alive' = FALSE /\ UNCHANGED <<ring, writer, reader, committed, late>>

-----------------------------------------------------------------------------
(* The reader's calls.  The loop is the one of a consumer that polls       *)
(* try_next, copies the payload of each event, and resets on a gap.        *)

At(seqno) == descriptors[Slot(seqno)]
NextSeqno == reader.last + 1

(* Faulty variant: a reader that was lapped keeps waiting.                 *)
NeverGap(seqno) == FALSE

(* monad_event_iterator_try_copy: load the slot's sequence number. *)
IsGap(seqno) == seqno > reader.last \/ (seqno = reader.last /\ seqno # 0)

Poll ==
  LET seqno == At(NextSeqno).seqno
  IN /\ reader.pc = "poll"
     /\ reader' = IF seqno = NextSeqno THEN [reader EXCEPT !.pc = "copy"]
                  ELSE IF IsGap(seqno) THEN [reader EXCEPT !.pc = "reset"]
                  ELSE reader

CopyDescriptor ==
  /\ reader.pc = "copy"
  /\ reader' = [reader EXCEPT !.pc = "reload", !.event = At(NextSeqno)]

(* The reload: success advances the iterator, a changed number is a gap. *)
Reload ==
  /\ reader.pc = "reload"
  /\ reader' = IF At(NextSeqno).seqno = NextSeqno
               THEN [reader EXCEPT !.pc = "check", !.last = NextSeqno]
               ELSE [reader EXCEPT !.pc = "reset", !.event = NoEvent]

(* monad_event_ring_payload_check, memcpy and the check after it. *)
PayloadCheck(d) == d.offset >= buffer_window_start

Check ==
  /\ reader.pc = "check"
  /\ reader' = IF PayloadCheck(reader.event) THEN [reader EXCEPT !.pc = "memcpy"]
               ELSE [reader EXCEPT !.pc = "poll", !.event = NoEvent]

Memcpy ==
  /\ reader.pc = "memcpy"
  /\ reader' = [reader EXCEPT !.pc = "recheck",
                 !.bytes = {payload_buf[u] : u \in Units(reader.event)}]

Recheck ==
  /\ reader.pc = "recheck"
  /\ reader' = [reader EXCEPT !.pc = "poll", !.event = NoEvent, !.bytes = {}]

(* monad_event_iterator_reset: start from the last number handed out and   *)
(* scan backwards; a slot that does not show its number is given up after  *)
(* MAX_SYNC_SPIN loads, whether or not its writer is about to commit.      *)
Reset ==
  /\ reader.pc = "reset"
  /\ reader' = [reader EXCEPT !.pc = "scan", !.scan = last_seqno]

ScanFound ==
  /\ reader.pc = "scan"
  /\ reader.scan = 0 \/ At(reader.scan).seqno = reader.scan
  /\ reader' = [reader EXCEPT !.pc = "poll", !.scan = 0,
                 !.last = IF reader.scan > 0 THEN reader.scan - 1 ELSE 0]

(* Faulty variant: waits until the slot shows its number.                  *)
ScanNoLimit ==
  /\ reader.pc = "scan" /\ reader.scan > 0
  /\ At(reader.scan).seqno # reader.scan
  /\ reader' = reader

ScanGiveUp ==
  /\ reader.pc = "scan" /\ reader.scan > 0
  /\ At(reader.scan).seqno # reader.scan
  /\ reader' = [reader EXCEPT !.scan = reader.scan - 1]

(* monad_event_ring_try_copy: random access.  The descriptor is copied     *)
(* first and the slot's number is compared only afterwards.                *)
TryCopy(seqno) ==
  /\ reader.pc = "poll"
  /\ reader' = [reader EXCEPT !.pc = "verify", !.want = seqno, !.event = At(seqno),
                 !.known = seqno \in committed]

Verify ==
  /\ reader.pc = "verify"
  /\ reader' = [reader EXCEPT !.pc = "poll", !.want = 0, !.event = NoEvent, !.known = FALSE]

Iterate ==
  \/ Poll \/ CopyDescriptor \/ Reload \/ Check \/ Memcpy \/ Recheck
  \/ Reset \/ ScanFound \/ ScanGiveUp \/ Verify

Record(w) == alive /\ Reserve(w) /\ UNCHANGED <<alive, reader>>
Read == Iterate /\ UNCHANGED <<ring, writer, alive, committed, late>>

Next ==
  \/ \E w \in Writers, size \in Sizes :
       alive /\ AllocSeqno(w, size) /\ UNCHANGED <<alive, reader>>
  \/ \E w \in Writers : Record(w)
  \/ Read
  \/ \E seqno \in 1 .. MaxEvents :
       TryCopy(seqno) /\ UNCHANGED <<ring, writer, alive, committed, late>>
  \/ Die

Spec == Init /\ [][Next]_vars

(* A thread inside reserve is never blocked, a reader inside a call goes   *)
(* on, and the consumer comes back to poll between other calls.  Nothing   *)
(* says that another event is ever recorded, that the process dies or that *)
(* anybody asks for random access.                                         *)
FairSpec ==
  /\ Spec
  /\ \A w \in Writers : WF_vars(Record(w))
  /\ WF_vars(Read)
  /\ SF_vars(Poll /\ UNCHANGED <<ring, writer, alive, committed, late>>)

-----------------------------------------------------------------------------
(* What a reader may rely on.                                              *)

(* A descriptor whose reload shows the expected number, the SUCCESS case   *)
(* of try_copy, holds the fields of that event and of no other: the writer *)
(* that takes the slot over clears the number before it stores a field.    *)
AcceptedIntact ==
  reader.pc = "reload" /\ At(NextSeqno).seqno = NextSeqno /\ ~late
    => reader.event.id = NextSeqno

(* A payload copy that passes the second window check consists of the      *)
(* bytes of its event only, although writers overwrite the buffer without  *)
(* waiting, slide the window in steps of Incr and drop a slide that lost   *)
(* its compare-and-exchange.                                               *)
PayloadIntact ==
  reader.pc = "recheck" /\ PayloadCheck(reader.event) /\ ~late
    => reader.bytes \subseteq {reader.event.id}

(* The size limit of reserve_block_event: until it is committed, a payload *)
(* expires by no more bytes than were reserved after it.  In particular no *)
(* event expires by its own reservation.                                   *)
NotExpiredOnCreation ==
  ~late => \A w \in Writers : writer[w].pc \in {"fill", "commit"} =>
             buffer_window_start - writer[w].begin
               <= next_payload_byte - (writer[w].begin + writer[w].size)

(* Random access to an event that was committed before the call either     *)
(* fails or returns that event's descriptor.                               *)
KnownCopyIntact ==
  reader.pc = "verify" /\ reader.known /\ At(reader.want).seqno = reader.want /\ ~late
    => reader.event.id = reader.want

(* The same for any sequence number: "returns true only if the descriptor  *)
(* was available and its contents were copied".                            *)
TryCopyIntact ==
  reader.pc = "verify" /\ At(reader.want).seqno = reader.want /\ ~late
    => reader.event.id = reader.want

(* While the recording process lives, a polling reader gets through gaps   *)
(* and resets to the last event recorded.                                  *)
CatchesUp == <>[](late \/ ~alive \/ reader.last = last_seqno)

(* Even when writers died inside a reservation, no call of the reader      *)
(* spins for ever: it always comes back to poll.                           *)
AlwaysReturns == []<>(late \/ reader.pc = "poll")
=============================================================================
