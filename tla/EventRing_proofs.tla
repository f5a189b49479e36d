------------------------- MODULE EventRing_proofs --------------------------
(***************************************************************************)
(* Proofs about EventRing for any number of recording threads and events,  *)
(* any ring and buffer size and any payload sizes: what a reader accepts   *)
(* is what one writer wrote, as long as no writer is overtaken between its *)
(* reservation and its commit.                                             *)
(***************************************************************************)
EXTENDS EventRing, TLAPS

\* Zenon proves a step that names no prover; the steps that need arithmetic,
\* records or functions taken apart name SMT.
USE ZenonT(20), SMTT(20)

-----------------------------------------------------------------------------
(* Arithmetic of the wrapping positions.                                   *)

LEMMA DivFacts ==
  ASSUME NEW x \in Int, NEW n \in Nat, n > 0
  PROVE  /\ x \div n \in Int
         /\ n * (x \div n) \in Int
         /\ n * (x \div n) <= x
         /\ x < n * (x \div n) + n
  BY Z3

LEMMA ModFacts ==
  ASSUME NEW x \in Int, NEW n \in Nat, n > 0
  PROVE  /\ x % n \in 0 .. n - 1
         /\ x = (n * (x \div n)) + (x % n)
  BY Z3

LEMMA MulStep ==
  ASSUME NEW p \in Int, NEW q \in Int, NEW n \in Nat, n > 0, p < q
  PROVE  (n * p) + n <= n * q
  BY Z3

(* Two positions that fall on the same place are a whole lap apart. *)
LEMMA ModApart ==
  ASSUME NEW x \in Int, NEW y \in Int, NEW n \in Nat, n > 0,
         x % n = y % n, x < y
  PROVE  x + n <= y
<1> DEFINE p == x \div n
           q == y \div n
           r == x % n
<1>1. /\ x = (n * p) + r /\ y = (n * q) + r
      /\ p \in Int /\ q \in Int /\ r \in Int /\ n * p \in Int /\ n * q \in Int
  BY ModFacts, DivFacts, SMT
<1> HIDE DEF p, q, r
<1>2. CASE q <= p
  <2>1. n * q <= n * p
    BY <1>1, <1>2, MulStep, SMT
  <2> QED
    BY <2>1, <1>1, SMT
<1>3. CASE p < q
  BY <1>1, <1>3, MulStep, SMT
<1> QED
  BY <1>1, <1>2, <1>3, SMT

(* The buffer has at least three window increments. *)
LEMMA Constants ==
  /\ Cap \in Nat /\ Cap > 1 /\ Incr \in Nat /\ Incr > 0
  /\ BufSize \in Nat /\ BufSize >= 3 * Incr
  /\ MaxEvents \in Nat /\ Sizes \subseteq Nat
  /\ Truncated \in Nat /\ Truncated < BufSize - 2 * Incr
  /\ Width = BufSize - Incr
<1> DEFINE q == BufSize \div Incr
<1>1. /\ BufSize = Incr * q /\ q \in Int /\ BufSize \in Nat /\ Incr \in Nat /\ Incr > 0
      /\ BufSize > 2 * Incr
  BY RingAssumption, ModFacts, DivFacts, SMT
<1> HIDE DEF q
<1>2. q > 2
  <2>1. CASE q = 2
    BY <2>1, <1>1, SMT
  <2>2. CASE q < 2
    BY <2>2, <1>1, MulStep, SMT
  <2> QED
    BY <2>1, <2>2, <1>1, SMT
<1>3. Incr * 2 + Incr <= Incr * q
  BY <1>1, <1>2, MulStep, SMT
<1> QED
  BY <1>1, <1>3, RingAssumption, SMT DEF Width

LEMMA RoundUpFacts ==
  ASSUME NEW x \in Nat
  PROVE  RoundUp(x) \in Int /\ x <= RoundUp(x) /\ RoundUp(x) <= x + Incr - 1
<1>1. x + Incr - 1 \in Int /\ Incr \in Nat /\ Incr > 0
  BY Constants, SMT
<1> DEFINE q == (x + Incr - 1) \div Incr
<1>2. /\ q \in Int /\ Incr * q \in Int /\ Incr * q <= x + Incr - 1
      /\ x + Incr - 1 < (Incr * q) + Incr
  BY <1>1, DivFacts
<1> HIDE DEF q
<1>3. q * Incr = Incr * q
  BY <1>1, <1>2, SMT
<1> QED
  BY <1>1, <1>2, <1>3, SMT DEF RoundUp, q

LEMMA SlotFacts ==
  ASSUME NEW s \in Int
  PROVE  Slot(s) \in 0 .. Cap - 1
  BY Constants, ModFacts, SMT DEF Slot

(* Events less than a lap apart use different slots. *)
LEMMA SlotApart ==
  ASSUME NEW s \in Int, NEW t \in Int, Slot(s) = Slot(t), s < t
  PROVE  s + Cap <= t
<1>1. (s - 1) + Cap <= t - 1
  BY Constants, ModApart, SMT DEF Slot
<1> QED
  BY <1>1, Constants, SMT

-----------------------------------------------------------------------------
(* The inductive invariant.                                                *)

WriterPc == {"idle", "bytes", "clear", "window", "slide", "fill", "commit"}
ReaderPc == {"poll", "copy", "reload", "check", "memcpy", "recheck", "reset",
             "scan", "verify"}
Descriptor == [seqno : Nat, id : Nat, offset : Nat, size : Nat]

(* The types of one writer's record and of the slots. *)
WriterType == [pc : WriterPc, seqno : 0 .. MaxEvents, begin : Nat, size : Nat, seen : Int]
SlotType == [seqno : 0 .. MaxEvents, id : 0 .. MaxEvents, offset : Nat, size : Nat]

ReaderType == [pc : ReaderPc, last : Nat, event : Descriptor, bytes : SUBSET Nat,
               scan : Nat, want : Nat, known : BOOLEAN]

(* TypeOK with the types it leaves open; a reservation has a number and a  *)
(* size below the limit.                                                   *)
Types ==
  /\ last_seqno \in 0 .. MaxEvents
  /\ next_payload_byte \in Nat /\ buffer_window_start \in Int
  /\ descriptors \in [0 .. Cap - 1 -> SlotType]
  /\ payload_buf \in [0 .. BufSize - 1 -> 0 .. MaxEvents]
  /\ writer \in [Writers -> WriterType]
  /\ reader \in ReaderType
  /\ committed \subseteq 1 .. MaxEvents
  /\ \A w \in Writers :
       writer[w].pc # "idle" => /\ writer[w].seqno # 0
                                /\ writer[w].size < BufSize - 2 * Incr
Flags == alive \in BOOLEAN /\ late \in BOOLEAN

End(w) == writer[w].begin + writer[w].size

(* Reservations in flight have numbers of their own, less than a lap old   *)
(* and not committed yet.                                                  *)
Numbers ==
  /\ committed \subseteq 1 .. last_seqno
  /\ \A w \in InFlight :
       /\ writer[w].seqno <= last_seqno /\ last_seqno - writer[w].seqno < Cap
       /\ writer[w].seqno \notin committed
  /\ \A v, w \in InFlight : v # w => writer[v].seqno # writer[w].seqno

(* A slot that shows a number holds that event; a slot that a writer       *)
(* cleared shows none until the writer commits.                            *)
Shown(d) == d.seqno # 0 => d.seqno \in committed /\ d.id = d.seqno
Hidden(w) ==
  LET d == At(writer[w].seqno)
  IN /\ writer[w].pc \in {"window", "slide", "fill", "commit"} => d.seqno = 0
     /\ writer[w].pc = "commit" => d.id = writer[w].seqno
Slots ==
  /\ \A k \in 0 .. Cap - 1 : Shown(descriptors[k])
  /\ \A w \in Writers : Hidden(w)

(* A number the reader saw in its slot was committed, so it does not come  *)
(* back once it is gone.                                                   *)
Seen ==
  /\ reader.pc \in {"copy", "reload"} => NextSeqno \in committed
  /\ reader.pc = "reload" /\ At(NextSeqno).seqno = NextSeqno => reader.event.id = NextSeqno
  /\ reader.pc = "verify" /\ reader.known =>
       /\ reader.want \in committed
       /\ At(reader.want).seqno = reader.want => reader.event.id = reader.want

(* Payloads of different events lie apart in the virtual buffer. *)
Unfilled == {w \in Writers : writer[w].pc \in {"clear", "window", "slide", "fill"}}
Apart(d) ==
  /\ d.offset + d.size <= next_payload_byte
  /\ \A w \in Unfilled : d.offset + d.size <= writer[w].begin \/ End(w) <= d.offset
Reserved ==
  /\ \A w \in HasBytes : End(w) <= next_payload_byte /\ next_payload_byte - End(w) <= Incr
  /\ \A v, w \in HasBytes : v # w => End(v) <= writer[w].begin \/ End(w) <= writer[v].begin
  /\ \A k \in 0 .. Cap - 1 : Apart(descriptors[k])
  /\ Apart(reader.event)

(* The window start is behind the bytes handed out, and before a writer    *)
(* fills its bytes it has passed those one lap older.                      *)
Cleared(w) == buffer_window_start >= End(w) - BufSize
Window ==
  /\ \/ buffer_window_start <= 0
     \/ buffer_window_start <= next_payload_byte + 2 * Incr - 1 - BufSize
  /\ \A w \in Writers :
       /\ writer[w].pc = "slide" => /\ End(w) - writer[w].seen > Width
                                    /\ buffer_window_start = writer[w].seen \/ Cleared(w)
       /\ writer[w].pc = "fill" => Cleared(w)

(* A payload that has not expired is all there. *)
Intact(d) ==
  d.offset >= buffer_window_start => \A u \in Units(d) : payload_buf[u] = d.id
Payloads ==
  /\ \A k \in 0 .. Cap - 1 : Intact(descriptors[k])
  /\ Intact(reader.event)
  /\ reader.pc = "recheck" /\ reader.event.offset >= buffer_window_start =>
       reader.bytes \subseteq {reader.event.id}

RingInv == Numbers /\ Slots /\ Seen /\ Reserved /\ Window /\ Payloads
IInv == Types /\ Flags /\ (~late => RingInv)

-----------------------------------------------------------------------------
(* Initially, and types.                                                   *)

LEMMA NoUnits == ASSUME NEW d, d.size = 0 PROVE Units(d) = {}
  BY SMT DEF Units

LEMMA InitIInv == Init => IInv
<1> SUFFICES ASSUME Init PROVE IInv
  OBVIOUS
<1> USE Constants DEF Init
<1>1. Types
  <2>1. NoEvent \in Descriptor /\ NoEvent \in SlotType /\ Idle \in WriterType
    BY SMT DEF NoEvent, Descriptor, SlotType, WriterType, WriterPc, Idle
  <2>2. /\ descriptors \in [0 .. Cap - 1 -> SlotType]
        /\ writer \in [Writers -> WriterType]
        /\ payload_buf \in [0 .. BufSize - 1 -> 0 .. MaxEvents]
        /\ last_seqno \in 0 .. MaxEvents /\ next_payload_byte \in Nat
        /\ buffer_window_start \in Int /\ committed \subseteq 1 .. MaxEvents
    BY <2>1, SMT
  <2>3. reader \in ReaderType
    BY <2>1 DEF ReaderType, ReaderPc
  <2>4. \A w \in Writers : writer[w].pc = "idle"
    BY DEF Idle
  <2> QED
    BY <2>2, <2>3, <2>4 DEF Types
<1>2. \A w \in Writers : writer[w].pc = "idle"
  BY DEF Idle
<1>3. /\ \A k \in 0 .. Cap - 1 : descriptors[k] = NoEvent
      /\ reader.event = NoEvent
  OBVIOUS
<1>4. Numbers /\ Seen /\ Window
  BY <1>2, SMT DEF Numbers, Seen, Window, InFlight
<1>5. Slots
  BY <1>2, <1>3 DEF Slots, Shown, Hidden, NoEvent
<1>6. Reserved
  BY <1>2, <1>3, SMT DEF Reserved, Apart, Unfilled, HasBytes, InFlight, NoEvent
<1>7. Intact(NoEvent)
  BY NoUnits, SMT DEF Intact, NoEvent
<1>8. Payloads
  BY <1>3, <1>7 DEF Payloads
<1>9. Flags
  BY DEF Flags
<1> QED
  BY <1>1, <1>4, <1>5, <1>6, <1>8, <1>9 DEF IInv, RingInv

LEMMA UnitsFacts ==
  ASSUME NEW d \in Descriptor PROVE Units(d) \subseteq 0 .. BufSize - 1
<1> SUFFICES ASSUME NEW i \in 0 .. d.size - 1
             PROVE  (d.offset + i) % BufSize \in 0 .. BufSize - 1
  BY DEF Units
<1>1. d.offset + i \in Int
  BY SMT DEF Descriptor
<1> QED
  BY <1>1, ModFacts, Constants, SMT

LEMMA TypeFacts ==
  ASSUME Types
  PROVE  /\ last_seqno \in Nat /\ next_payload_byte \in Nat /\ buffer_window_start \in Int
         /\ \A w \in Writers : writer[w] \in WriterType
         /\ \A k \in 0 .. Cap - 1 : descriptors[k] \in SlotType
         /\ \A s \in Int : At(s) \in SlotType
         /\ reader.event \in Descriptor /\ reader.last \in Nat /\ reader.want \in Nat
         /\ SlotType \subseteq Descriptor
<1>1. /\ last_seqno \in Nat /\ next_payload_byte \in Nat /\ buffer_window_start \in Int
      /\ \A w \in Writers : writer[w] \in WriterType
      /\ \A k \in 0 .. Cap - 1 : descriptors[k] \in SlotType
  BY Constants, SMT DEF Types
<1>2. SlotType \subseteq Descriptor
  BY Constants, SMT DEF SlotType, Descriptor
<1>3. reader.event \in Descriptor /\ reader.last \in Nat /\ reader.want \in Nat
  BY DEF Types, ReaderType
<1> QED
  BY <1>1, <1>2, <1>3, SlotFacts DEF At

LEMMA WriterFacts ==
  ASSUME Types, NEW w \in Writers
  PROVE  /\ writer[w] \in WriterType /\ writer[w].seqno \in 0 .. MaxEvents
         /\ writer[w].seqno \in Int /\ writer[w].begin \in Nat /\ writer[w].size \in Nat
         /\ writer[w].seen \in Int /\ End(w) \in Nat
         /\ Slot(writer[w].seqno) \in 0 .. Cap - 1
         /\ descriptors[Slot(writer[w].seqno)] \in SlotType
<1>1. /\ writer[w] \in WriterType /\ writer[w].seqno \in 0 .. MaxEvents
      /\ writer[w].seqno \in Int /\ writer[w].begin \in Nat /\ writer[w].size \in Nat
      /\ writer[w].seen \in Int
  BY TypeFacts, Constants, SMT DEF WriterType
<1>2. Slot(writer[w].seqno) \in 0 .. Cap - 1
  BY <1>1, SlotFacts
<1> QED
  BY <1>1, <1>2, TypeFacts, SMT DEF End

LEMMA TypesTypeOK == Types /\ Flags => TypeOK
<1> SUFFICES ASSUME Types, Flags PROVE TypeOK
  OBVIOUS
<1>1. reader.pc \in ReaderPc
  BY DEF Types, ReaderType
<1> QED
  BY <1>1 DEF Types, Flags, TypeOK, SlotType, WriterType, WriterPc, ReaderPc

-----------------------------------------------------------------------------
(* What each step of a writer does to the writers' records.                *)

(* Only w's record changes. *)
OnlyWriter(w) ==
  /\ writer' \in [Writers -> WriterType]
  /\ \A v \in Writers : v # w => writer'[v] = writer[v]

Keeps(w) ==
  /\ writer'[w].seqno = writer[w].seqno /\ writer'[w].size = writer[w].size

LEMMA AllocSeqnoMoves ==
  ASSUME Types, NEW w \in Writers, NEW size \in Sizes, AllocSeqno(w, size)
  PROVE  /\ OnlyWriter(w) /\ writer'[w].pc = "bytes" /\ writer'[w].seqno = last_seqno + 1
         /\ writer'[w].size \in Nat /\ writer'[w].size < BufSize - 2 * Incr
<1>1. AllocSize(size) \in Nat /\ AllocSize(size) < BufSize - 2 * Incr
  BY Constants, SMT DEF AllocSize
<1> DEFINE r == [Idle EXCEPT !.pc = "bytes", !.seqno = last_seqno + 1, !.size = AllocSize(size)]
<1>2. /\ r \in WriterType /\ r.pc = "bytes" /\ r.seqno = last_seqno + 1
      /\ r.size = AllocSize(size)
  <2>1. last_seqno + 1 \in 0 .. MaxEvents
    <3>1. last_seqno \in 0 .. MaxEvents
      BY DEF Types
    <3>2. last_seqno < MaxEvents
      BY DEF AllocSeqno
    <3> QED
      BY <3>1, <3>2, Constants, SMT
  <2>2. Idle \in WriterType
    BY Constants, SMT DEF Idle, WriterType, WriterPc
  <2> QED
    BY <2>1, <2>2, <1>1 DEF WriterType, WriterPc
<1>3. writer' = [writer EXCEPT ![w] = r] /\ writer \in [Writers -> WriterType]
  BY DEF AllocSeqno, Types
<1> HIDE DEF r
<1> QED
  BY <1>1, <1>2, <1>3 DEF OnlyWriter

LEMMA AllocBytesMoves ==
  ASSUME Types, NEW w \in Writers, AllocBytes(w)
  PROVE  OnlyWriter(w) /\ Keeps(w) /\ writer'[w].pc = "clear" /\ writer'[w].begin = next_payload_byte
  BY DEF Types, AllocBytes, OnlyWriter, Keeps, WriterType, WriterPc

LEMMA ClearSeqnoMoves ==
  ASSUME Types, NEW w \in Writers, ClearSeqno(w)
  PROVE  OnlyWriter(w) /\ Keeps(w) /\ writer'[w].pc = "window" /\ writer'[w].begin = writer[w].begin
  BY DEF Types, ClearSeqno, OnlyWriter, Keeps, WriterType, WriterPc

LEMMA LoadWindowMoves ==
  ASSUME Types, NEW w \in Writers, LoadWindow(w)
  PROVE  /\ OnlyWriter(w) /\ Keeps(w) /\ writer'[w].begin = writer[w].begin
         /\ writer'[w].seen = buffer_window_start
         /\ writer'[w].pc = IF MustSlide(writer[w].begin, writer[w].size) THEN "slide" ELSE "fill"
  BY DEF Types, LoadWindow, OnlyWriter, Keeps, WriterType, WriterPc

LEMMA SlideWindowMoves ==
  ASSUME Types, NEW w \in Writers, SlideWindow(w)
  PROVE  OnlyWriter(w) /\ Keeps(w) /\ writer'[w].pc = "fill" /\ writer'[w].begin = writer[w].begin
  BY DEF Types, SlideWindow, OnlyWriter, Keeps, WriterType, WriterPc

LEMMA FillMoves ==
  ASSUME Types, NEW w \in Writers, Fill(w)
  PROVE  OnlyWriter(w) /\ Keeps(w) /\ writer'[w].pc = "commit" /\ writer'[w].begin = writer[w].begin
  BY DEF Types, Fill, OnlyWriter, Keeps, WriterType, WriterPc

LEMMA CommitMoves ==
  ASSUME Types, NEW w \in Writers, Commit(w)
  PROVE  OnlyWriter(w) /\ writer'[w].pc = "idle"
<1>1. Idle \in WriterType
  BY Constants, SMT DEF Idle, WriterType, WriterPc
<1> QED
  BY <1>1 DEF Types, Commit, OnlyWriter, Idle

(* What it does to its slot: nobody else's changes. *)
OnlySlot(k) ==
  /\ descriptors' \in [0 .. Cap - 1 -> SlotType]
  /\ \A j \in 0 .. Cap - 1 : j # k => descriptors'[j] = descriptors[j]

LEMMA ClearSeqnoStores ==
  ASSUME Types, NEW w \in Writers, ClearSeqno(w)
  PROVE  LET k == Slot(writer[w].seqno)
         IN /\ k \in 0 .. Cap - 1 /\ OnlySlot(k) /\ descriptors'[k].seqno = 0
            /\ descriptors'[k].id = descriptors[k].id
            /\ descriptors'[k].offset = descriptors[k].offset
            /\ descriptors'[k].size = descriptors[k].size
<1> DEFINE k == Slot(writer[w].seqno)
<1>1. /\ k \in 0 .. Cap - 1 /\ 0 \in 0 .. MaxEvents
      /\ descriptors \in [0 .. Cap - 1 -> SlotType]
  BY WriterFacts, Constants, SMT DEF Types
<1> DEFINE r == [descriptors[k] EXCEPT !.seqno = 0]
<1>2. descriptors' = [descriptors EXCEPT ![k] = r]
  BY DEF ClearSeqno
<1> HIDE DEF k
<1>3. /\ r \in SlotType /\ r.seqno = 0 /\ r.id = descriptors[k].id
      /\ r.offset = descriptors[k].offset /\ r.size = descriptors[k].size
  BY <1>1 DEF SlotType
<1> HIDE DEF r
<1>4. OnlySlot(k) /\ descriptors'[k] = r
  BY <1>1, <1>2, <1>3 DEF OnlySlot
<1> QED
  BY <1>1, <1>3, <1>4 DEF k

LEMMA CommitStores ==
  ASSUME Types, NEW w \in Writers, Commit(w)
  PROVE  LET k == Slot(writer[w].seqno)
         IN /\ k \in 0 .. Cap - 1 /\ OnlySlot(k) /\ descriptors'[k].seqno = writer[w].seqno
            /\ descriptors'[k].id = descriptors[k].id
            /\ descriptors'[k].offset = descriptors[k].offset
            /\ descriptors'[k].size = descriptors[k].size
<1> DEFINE k == Slot(writer[w].seqno)
           n == writer[w].seqno
<1>1. /\ k \in 0 .. Cap - 1 /\ n \in 0 .. MaxEvents
      /\ descriptors \in [0 .. Cap - 1 -> SlotType]
  BY WriterFacts, Constants DEF Types
<1> DEFINE r == [descriptors[k] EXCEPT !.seqno = n]
<1>2. descriptors' = [descriptors EXCEPT ![k] = r]
  BY DEF Commit
<1> HIDE DEF k, n
<1>3. /\ r \in SlotType /\ r.seqno = n /\ r.id = descriptors[k].id
      /\ r.offset = descriptors[k].offset /\ r.size = descriptors[k].size
  BY <1>1 DEF SlotType
<1> HIDE DEF r
<1>4. OnlySlot(k) /\ descriptors'[k] = r
  BY <1>1, <1>2, <1>3 DEF OnlySlot
<1> QED
  BY <1>1, <1>3, <1>4 DEF k, n

LEMMA FillStores ==
  ASSUME Types, NEW w \in Writers, Fill(w)
  PROVE  LET k == Slot(writer[w].seqno)
         IN /\ k \in 0 .. Cap - 1 /\ OnlySlot(k)
            /\ descriptors'[k].seqno = descriptors[k].seqno
            /\ descriptors'[k].id = writer[w].seqno
            /\ descriptors'[k].offset = writer[w].begin
            /\ descriptors'[k].size = writer[w].size
            /\ payload_buf' \in [0 .. BufSize - 1 -> 0 .. MaxEvents]
            /\ \A u \in 0 .. BufSize - 1 :
                 payload_buf'[u] = IF u \in Units(descriptors'[k]) THEN writer[w].seqno
                                   ELSE payload_buf[u]
<1> DEFINE k == Slot(writer[w].seqno)
           d == [id |-> writer[w].seqno, offset |-> writer[w].begin,
                 size |-> writer[w].size, seqno |-> descriptors[k].seqno]
<1>1. /\ k \in 0 .. Cap - 1 /\ writer[w].seqno \in 0 .. MaxEvents
      /\ descriptors \in [0 .. Cap - 1 -> SlotType]
      /\ payload_buf \in [0 .. BufSize - 1 -> 0 .. MaxEvents]
  BY WriterFacts DEF Types
<1>4. /\ descriptors' = [descriptors EXCEPT ![k] = d]
      /\ payload_buf' = [u \in 0 .. BufSize - 1 |->
                           IF u \in Units(d) THEN d.id ELSE payload_buf[u]]
  BY DEF Fill
<1>2. /\ d \in SlotType /\ d.id = writer[w].seqno /\ d.offset = writer[w].begin
      /\ d.size = writer[w].size /\ d.seqno = descriptors[k].seqno
  BY WriterFacts DEF SlotType
<1> HIDE DEF k, d
<1>3. /\ OnlySlot(k) /\ descriptors'[k] = d
      /\ payload_buf' \in [0 .. BufSize - 1 -> 0 .. MaxEvents]
      /\ \A u \in 0 .. BufSize - 1 :
            payload_buf'[u] = IF u \in Units(d) THEN writer[w].seqno ELSE payload_buf[u]
  BY <1>1, <1>2, <1>4 DEF OnlySlot
<1> QED
  BY <1>1, <1>2, <1>3 DEF k

LEMMA SlideWindowStores ==
  ASSUME Types, NEW w \in Writers, SlideWindow(w)
  PROVE  /\ buffer_window_start' \in Int
         /\ buffer_window_start = writer[w].seen =>
              /\ buffer_window_start' >= End(w) - Width
              /\ buffer_window_start' <= End(w) + Incr - 1 - Width
         /\ buffer_window_start # writer[w].seen => buffer_window_start' = buffer_window_start
<1>1. End(w) \in Nat /\ buffer_window_start \in Int /\ Width \in Int /\ Incr \in Nat
  BY TypeFacts, Constants, SMT DEF WriterType, End
<1>2. /\ RoundUp(End(w)) \in Int /\ End(w) <= RoundUp(End(w))
      /\ RoundUp(End(w)) <= End(w) + Incr - 1
  BY <1>1, RoundUpFacts
<1>3. buffer_window_start' = IF buffer_window_start = writer[w].seen
                             THEN RoundUp(End(w)) - Width ELSE buffer_window_start
  BY DEF SlideWindow, SlideTarget, End
<1> QED
  BY <1>1, <1>2, <1>3, SMT

(* A step of a writer keeps the types. *)
SizeOK(w) ==
  writer[w].pc # "idle" => writer[w].seqno # 0 /\ writer[w].size < BufSize - 2 * Incr

LEMMA WriterTypes ==
  ASSUME Types, NEW w \in Writers, OnlyWriter(w), SizeOK(w)',
         last_seqno' \in 0 .. MaxEvents, next_payload_byte' \in Nat,
         buffer_window_start' \in Int,
         descriptors' \in [0 .. Cap - 1 -> SlotType],
         payload_buf' \in [0 .. BufSize - 1 -> 0 .. MaxEvents],
         committed' \subseteq 1 .. MaxEvents,
         UNCHANGED reader
  PROVE  Types'
<1>1. \A v \in Writers : SizeOK(v)'
  BY DEF Types, OnlyWriter, SizeOK
<1> QED
  BY <1>1 DEF Types, OnlyWriter, SizeOK

LEMMA AllocSeqnoTypes ==
  ASSUME Types, NEW w \in Writers, NEW size \in Sizes, AllocSeqno(w, size),
         UNCHANGED reader
  PROVE  Types'
<1>1. last_seqno' \in 0 .. MaxEvents /\ last_seqno + 1 # 0
  <2>1. last_seqno \in 0 .. MaxEvents
    BY DEF Types
  <2>2. last_seqno' = last_seqno + 1 /\ last_seqno < MaxEvents
    BY DEF AllocSeqno
  <2> QED
    BY <2>1, <2>2, Constants, SMT
<1>2. OnlyWriter(w) /\ SizeOK(w)'
  BY <1>1, AllocSeqnoMoves DEF SizeOK
<1>3. /\ next_payload_byte' \in Nat /\ buffer_window_start' \in Int
      /\ descriptors' \in [0 .. Cap - 1 -> SlotType]
      /\ payload_buf' \in [0 .. BufSize - 1 -> 0 .. MaxEvents]
      /\ committed' \subseteq 1 .. MaxEvents
  BY DEF AllocSeqno, Types
<1> QED
  BY <1>1, <1>2, <1>3, WriterTypes

LEMMA ReserveTypes ==
  ASSUME Types, NEW w \in Writers, Reserve(w), UNCHANGED reader
  PROVE  Types'
<1>0. SizeOK(w)
  BY DEF Types, SizeOK
<1>1. /\ writer[w] \in WriterType
      /\ Slot(writer[w].seqno) \in 0 .. Cap - 1
      /\ descriptors[Slot(writer[w].seqno)] \in SlotType
      /\ writer[w].seqno \in 0 .. MaxEvents /\ writer[w].begin \in Nat
      /\ writer[w].size \in Nat
  BY TypeFacts, SlotFacts, Constants, SMT DEF WriterType
<1>2. CASE AllocBytes(w)
  <2>1. OnlyWriter(w) /\ SizeOK(w)'
    BY <1>0, <1>2, AllocBytesMoves DEF AllocBytes, SizeOK, Keeps
  <2>2. /\ last_seqno' \in 0 .. MaxEvents /\ next_payload_byte' \in Nat
        /\ buffer_window_start' \in Int
        /\ descriptors' \in [0 .. Cap - 1 -> SlotType]
        /\ payload_buf' \in [0 .. BufSize - 1 -> 0 .. MaxEvents]
        /\ committed' \subseteq 1 .. MaxEvents
    BY <1>0, <1>1, <1>2, SMT DEF AllocBytes, Types
  <2> QED
    BY <2>1, <2>2, WriterTypes
<1>3. CASE ClearSeqno(w)
  <2>1. OnlyWriter(w) /\ SizeOK(w)'
    BY <1>0, <1>3, ClearSeqnoMoves DEF ClearSeqno, SizeOK, Keeps
  <2>2. /\ last_seqno' \in 0 .. MaxEvents /\ next_payload_byte' \in Nat
        /\ buffer_window_start' \in Int
        /\ payload_buf' \in [0 .. BufSize - 1 -> 0 .. MaxEvents]
        /\ committed' \subseteq 1 .. MaxEvents
    BY <1>0, <1>1, <1>3 DEF ClearSeqno, control, Types
  <2>3. descriptors' \in [0 .. Cap - 1 -> SlotType]
    BY <1>3, ClearSeqnoStores DEF OnlySlot
  <2> QED
    BY <2>1, <2>2, <2>3, WriterTypes
<1>4. CASE LoadWindow(w)
  <2>1. OnlyWriter(w) /\ SizeOK(w)'
    BY <1>0, <1>4, LoadWindowMoves DEF LoadWindow, SizeOK, Keeps
  <2>2. /\ last_seqno' \in 0 .. MaxEvents /\ next_payload_byte' \in Nat
        /\ buffer_window_start' \in Int
        /\ descriptors' \in [0 .. Cap - 1 -> SlotType]
        /\ payload_buf' \in [0 .. BufSize - 1 -> 0 .. MaxEvents]
        /\ committed' \subseteq 1 .. MaxEvents
    BY <1>0, <1>1, <1>4 DEF LoadWindow, ring, control, Types
  <2> QED
    BY <2>1, <2>2, WriterTypes
<1>5. CASE SlideWindow(w)
  <2>1. OnlyWriter(w) /\ SizeOK(w)'
    BY <1>0, <1>5, SlideWindowMoves DEF SlideWindow, SizeOK, Keeps
  <2>2. /\ last_seqno' \in 0 .. MaxEvents /\ next_payload_byte' \in Nat
        /\ descriptors' \in [0 .. Cap - 1 -> SlotType]
        /\ payload_buf' \in [0 .. BufSize - 1 -> 0 .. MaxEvents]
        /\ committed' \subseteq 1 .. MaxEvents
    BY <1>0, <1>1, <1>5 DEF SlideWindow, Types
  <2>3. buffer_window_start' \in Int
    BY <1>5, SlideWindowStores
  <2> QED
    BY <2>1, <2>2, <2>3, WriterTypes
<1>6. CASE Fill(w)
  <2>1. OnlyWriter(w) /\ SizeOK(w)'
    BY <1>0, <1>6, FillMoves DEF Fill, SizeOK, Keeps
  <2>2. /\ last_seqno' \in 0 .. MaxEvents /\ next_payload_byte' \in Nat
        /\ buffer_window_start' \in Int
        /\ committed' \subseteq 1 .. MaxEvents
    BY <1>0, <1>1, <1>6 DEF Fill, control, Types
  <2>3. descriptors' \in [0 .. Cap - 1 -> SlotType]
    BY <1>6, FillStores DEF OnlySlot
  <2>4. payload_buf' \in [0 .. BufSize - 1 -> 0 .. MaxEvents]
    BY <1>6, FillStores
  <2> QED
    BY <2>1, <2>2, <2>3, <2>4, WriterTypes
<1>7. CASE Commit(w)
  <2>1. OnlyWriter(w) /\ SizeOK(w)'
    BY <1>0, <1>7, CommitMoves DEF Commit, SizeOK
  <2>2. /\ last_seqno' \in 0 .. MaxEvents /\ next_payload_byte' \in Nat
        /\ buffer_window_start' \in Int
        /\ payload_buf' \in [0 .. BufSize - 1 -> 0 .. MaxEvents]
    BY <1>0, <1>1, <1>7 DEF Commit, control, Types
  <2>3. descriptors' \in [0 .. Cap - 1 -> SlotType]
    BY <1>7, CommitStores DEF OnlySlot
  <2>4. committed' \subseteq 1 .. MaxEvents
    <3>1. writer[w].seqno \in 1 .. MaxEvents
      BY <1>0, <1>1, <1>7, Constants, SMT DEF Commit, SizeOK
    <3> QED
      BY <1>7, <3>1 DEF Commit, Types
  <2> QED
    BY <2>1, <2>2, <2>3, <2>4, WriterTypes
<1> QED
  BY <1>2, <1>3, <1>4, <1>5, <1>6, <1>7 DEF Reserve

-----------------------------------------------------------------------------
(* Steps of the reader.                                                    *)

LEMMA ReaderTypes ==
  ASSUME Types, reader' \in ReaderType, UNCHANGED <<ring, writer, committed>>
  PROVE  Types'
  BY DEF Types, ring, control

LEMMA IterateTypes ==
  ASSUME Types, Iterate PROVE reader' \in ReaderType
<1>0. /\ reader \in ReaderType /\ reader.last \in Nat /\ last_seqno \in Nat
      /\ reader.event \in Descriptor /\ NextSeqno \in Nat
  BY TypeFacts, SMT DEF Types, NextSeqno
<1>1. /\ reader \in ReaderType /\ At(NextSeqno) \in Descriptor /\ NoEvent \in Descriptor
      /\ reader.last \in Nat /\ last_seqno \in Nat /\ reader.event \in Descriptor
      /\ NextSeqno \in Nat /\ reader.scan \in Nat
  <2>1. NoEvent \in Descriptor
    BY DEF NoEvent, Descriptor
  <2>2. At(NextSeqno) \in Descriptor
    BY <1>0, TypeFacts, SMT
  <2>3. reader.scan \in Nat
    BY <1>0 DEF ReaderType
  <2> QED
    BY <1>0, <2>1, <2>2, <2>3
<1>2. {payload_buf[u] : u \in Units(reader.event)} \in SUBSET Nat
  BY <1>1, UnitsFacts, Constants, SMT DEF Types
<1> HIDE DEF Types
<1>3. CASE Poll
  BY <1>1, <1>3 DEF Poll, ReaderType, ReaderPc
<1>4. CASE CopyDescriptor
  BY <1>1, <1>4 DEF CopyDescriptor, ReaderType, ReaderPc
<1>5. CASE Reload
  BY <1>1, <1>5 DEF Reload, ReaderType, ReaderPc
<1>6. CASE Check
  BY <1>1, <1>6 DEF Check, ReaderType, ReaderPc
<1>7. CASE Memcpy
  BY <1>1, <1>2, <1>7 DEF Memcpy, ReaderType, ReaderPc
<1>8. CASE Recheck
  BY <1>1, <1>8 DEF Recheck, ReaderType, ReaderPc
<1>9. CASE Reset
  BY <1>1, <1>9 DEF Reset, ReaderType, ReaderPc
<1>10. CASE ScanFound
  <2> DEFINE last == IF reader.scan > 0 THEN reader.scan - 1 ELSE 0
  <2>1. last \in Nat
    BY <1>1, SMT
  <2>2. reader' = [reader EXCEPT !.pc = "poll", !.scan = 0, !.last = last]
    BY <1>10 DEF ScanFound
  <2> HIDE DEF last
  <2> QED
    BY <1>1, <2>1, <2>2 DEF ReaderType, ReaderPc
<1>11. CASE ScanGiveUp
  BY <1>1, <1>11, SMT DEF ScanGiveUp, ReaderType, ReaderPc
<1>12. CASE Verify
  BY <1>1, <1>12 DEF Verify, ReaderType, ReaderPc
<1> QED
  BY <1>3, <1>4, <1>5, <1>6, <1>7, <1>8, <1>9, <1>10, <1>11, <1>12 DEF Iterate

LEMMA IsBoolean ==
  ASSUME NEW x, NEW S PROVE (x \in S) \in BOOLEAN
  BY SMT

LEMMA TryCopyTypes ==
  ASSUME Types, NEW seqno \in 1 .. MaxEvents, TryCopy(seqno)
  PROVE  reader' \in ReaderType
<1>1. /\ reader \in ReaderType /\ At(seqno) \in Descriptor /\ seqno \in Nat
  BY TypeFacts, SMT DEF Types
<1>2. (seqno \in committed) \in BOOLEAN
  BY IsBoolean
<1> DEFINE known == seqno \in committed
<1>3. reader' = [reader EXCEPT !.pc = "verify", !.want = seqno, !.event = At(seqno),
                             !.known = known]
  BY DEF TryCopy
<1>4. known \in BOOLEAN
  BY <1>2
<1> HIDE DEF known
<1> QED
  BY <1>1, <1>3, <1>4 DEF ReaderType, ReaderPc

-----------------------------------------------------------------------------
(* Parts of the invariant that a step of a writer does not disturb.        *)

(* Reservations in flight use different slots. *)
LEMMA OwnSlot ==
  ASSUME Types, Numbers, NEW v \in InFlight, NEW w \in InFlight, v # w
  PROVE  Slot(writer[v].seqno) # Slot(writer[w].seqno)
<1> DEFINE s == writer[v].seqno
           t == writer[w].seqno
<1>1. /\ s \in Int /\ t \in Int /\ last_seqno \in Int /\ Cap \in Int
      /\ s <= last_seqno /\ last_seqno - s < Cap /\ t <= last_seqno
      /\ last_seqno - t < Cap /\ s # t
  BY WriterFacts, TypeFacts, Constants, SMT DEF Numbers, InFlight
<1> HIDE DEF s, t
<1>2. ASSUME Slot(s) = Slot(t) PROVE FALSE
  <2>1. CASE s < t
    BY <1>1, <1>2, <2>1, SlotApart, SMT
  <2>2. CASE t < s
    BY <1>1, <1>2, <2>2, SlotApart, SMT
  <2> QED
    BY <1>1, <2>1, <2>2, SMT
<1> QED
  BY <1>2 DEF s, t

LEMMA NumbersKept ==
  ASSUME Types, Numbers, NEW w \in Writers, OnlyWriter(w), Keeps(w),
         writer[w].pc # "idle", last_seqno' = last_seqno, committed' = committed
  PROVE  Numbers'
<1>1. \A v \in InFlight' : v \in InFlight /\ writer'[v].seqno = writer[v].seqno
  BY DEF InFlight, OnlyWriter, Keeps
<1> QED
  BY <1>1 DEF Numbers

(* Nothing is reserved; descriptors keep what they say about payloads. *)
SameBytes ==
  /\ next_payload_byte' = next_payload_byte
  /\ \A v \in HasBytes' : /\ v \in HasBytes
                          /\ writer'[v].begin = writer[v].begin
                          /\ writer'[v].size = writer[v].size
  /\ Unfilled' \subseteq Unfilled
SameData ==
  \A k \in 0 .. Cap - 1 : /\ descriptors'[k].id = descriptors[k].id
                          /\ descriptors'[k].offset = descriptors[k].offset
                          /\ descriptors'[k].size = descriptors[k].size

LEMMA ReservedKept ==
  ASSUME Reserved, SameBytes, SameData, UNCHANGED reader
  PROVE  Reserved'
<1>1. \A v \in HasBytes' : End(v)' = End(v)
  BY DEF SameBytes, End
<1>2. \A v \in Unfilled' : v \in HasBytes'
  BY DEF Unfilled, HasBytes, InFlight
<1>3. /\ \A k \in 0 .. Cap - 1 : Apart(descriptors[k])'
      /\ Apart(reader.event)'
  BY <1>1, <1>2 DEF Reserved, Apart, SameBytes, SameData
<1>4. \A v \in HasBytes' : End(v)' <= next_payload_byte' /\ next_payload_byte' - End(v)' <= Incr
  BY <1>1 DEF Reserved, SameBytes
<1>5. \A v, w \in HasBytes' : v # w => End(v)' <= writer'[w].begin \/ End(w)' <= writer'[v].begin
  BY <1>1 DEF Reserved, SameBytes
<1> QED
  BY <1>3, <1>4, <1>5 DEF Reserved

LEMMA PayloadsKept ==
  ASSUME Types, Types', Payloads, SameData, payload_buf' = payload_buf,
         buffer_window_start' >= buffer_window_start, UNCHANGED reader
  PROVE  Payloads'
<1>1. /\ buffer_window_start \in Int /\ buffer_window_start' \in Int
      /\ reader.event.offset \in Nat
  BY TypeFacts DEF Types, Descriptor
<1>2. ASSUME NEW k \in 0 .. Cap - 1 PROVE Intact(descriptors[k])'
  <2>1. Units(descriptors[k])' = Units(descriptors[k])
    BY DEF SameData, Units
  <2>2. descriptors[k].offset \in Nat
    BY TypeFacts DEF SlotType
  <2> QED
    BY <1>1, <2>1, <2>2, SMT DEF Payloads, Intact, SameData
<1>3. Intact(reader.event)'
  <2>1. Units(reader.event)' = Units(reader.event)
    BY DEF Units
  <2> QED
    BY <1>1, <2>1, SMT DEF Payloads, Intact
<1> QED
  BY <1>1, <1>2, <1>3, SMT DEF Payloads

LEMMA SeenKept ==
  ASSUME Types, Seen, UNCHANGED reader, committed \subseteq committed',
         \A k \in 0 .. Cap - 1 :
           \/ descriptors'[k].seqno \in {descriptors[k].seqno, 0}
           \/ descriptors'[k].seqno \notin committed
  PROVE  Seen'
<1>1. ASSUME NEW s \in committed, At(s)'.seqno = s PROVE At(s).seqno = s
  <2>1. s \in Int /\ s # 0
    BY Constants, SMT DEF Types
  <2>2. Slot(s) \in 0 .. Cap - 1
    BY <2>1, SlotFacts
  <2> QED
    BY <1>1, <2>1, <2>2 DEF At
<1>2. NextSeqno' = NextSeqno
  BY DEF NextSeqno
<1> QED
  BY <1>1, <1>2 DEF Seen, At

LEMMA SlotsKept ==
  ASSUME Slots, descriptors' = descriptors, committed' = committed,
         NEW w \in Writers, OnlyWriter(w), Hidden(w)'
  PROVE  Slots'
<1>1. ASSUME NEW v \in Writers PROVE Hidden(v)'
  BY DEF Slots, Hidden, At, OnlyWriter
<1> QED
  BY <1>1 DEF Slots, Shown

LEMMA WindowBound ==
  ASSUME NEW s \in Int, NEW n \in Nat, NEW m \in Nat, n <= m,
         s <= 0 \/ s <= n + 2 * Incr - 1 - BufSize
  PROVE  s <= 0 \/ s <= m + 2 * Incr - 1 - BufSize
  BY Constants, SMT

(* The window does not move. *)
LEMMA WindowKept ==
  ASSUME Types, Types', Window, NEW w \in Writers, OnlyWriter(w),
         writer'[w].pc \notin {"slide", "fill"},
         buffer_window_start' = buffer_window_start,
         next_payload_byte' >= next_payload_byte
  PROVE  Window'
<1>1. ASSUME NEW v \in Writers, v # w
      PROVE  writer'[v] = writer[v] /\ End(v)' = End(v)
  BY <1>1 DEF OnlyWriter, End
<1>2. \/ buffer_window_start' <= 0
      \/ buffer_window_start' <= next_payload_byte' + 2 * Incr - 1 - BufSize
  <2>1. /\ next_payload_byte \in Nat /\ next_payload_byte' \in Nat
        /\ buffer_window_start \in Int /\ buffer_window_start' \in Int
    BY DEF Types
  <2> QED
    BY <2>1, Constants, WindowBound DEF Window
<1> QED
  BY <1>1, <1>2 DEF Window, Cleared

-----------------------------------------------------------------------------
(* Every step of a writer keeps the invariant.                             *)

LEMMA AllocSeqnoInv ==
  ASSUME Types, Types', RingInv, NEW w \in Writers, NEW size \in Sizes,
         AllocSeqno(w, size), ~late', UNCHANGED reader
  PROVE  RingInv'
<1>1. /\ OnlyWriter(w) /\ writer'[w].pc = "bytes" /\ writer'[w].seqno = last_seqno + 1
      /\ writer[w].pc = "idle" /\ last_seqno' = last_seqno + 1
      /\ UNCHANGED <<next_payload_byte, buffer_window_start, descriptors, payload_buf, committed>>
  BY AllocSeqnoMoves DEF AllocSeqno
<1>2. \A v \in InFlight' : v = w \/ (v \in InFlight /\ v # w /\ writer'[v] = writer[v])
  BY <1>1 DEF InFlight, OnlyWriter
<1>3. Numbers'
  <2>1. \A v \in InFlight : ~((last_seqno + 1) - writer[v].seqno >= Cap)
    <3>1. ~OvertakenBy(last_seqno + 1, next_payload_byte)
      BY DEF AllocSeqno
    <3> QED
      BY <3>1 DEF OvertakenBy
  <2>2. /\ last_seqno \in Nat /\ Cap \in Nat /\ Cap > 1
        /\ \A v \in InFlight : writer[v].seqno \in Int
    BY TypeFacts, WriterFacts, Constants DEF InFlight
  <2>3. /\ committed \subseteq 1 .. last_seqno
        /\ \A v \in InFlight : writer[v].seqno <= last_seqno /\ writer[v].seqno \notin committed
        /\ \A u, v \in InFlight : u # v => writer[u].seqno # writer[v].seqno
    BY DEF RingInv, Numbers
  <2>4. \A v \in InFlight' :
          /\ writer'[v].seqno <= last_seqno' /\ last_seqno' - writer'[v].seqno < Cap
          /\ writer'[v].seqno \notin committed'
    BY <1>1, <1>2, <2>1, <2>2, <2>3, SMT
  <2>5. \A u, v \in InFlight' : u # v => writer'[u].seqno # writer'[v].seqno
    <3> SUFFICES ASSUME NEW u \in InFlight', NEW v \in InFlight', u # v,
                        writer'[u].seqno = writer'[v].seqno
                 PROVE  FALSE
      OBVIOUS
    <3>1. CASE u = w
      BY <3>1, <1>1, <1>2, <2>2, <2>3, SMT
    <3>2. CASE v = w
      BY <3>2, <1>1, <1>2, <2>2, <2>3, SMT
    <3> QED
      BY <3>1, <3>2, <1>2, <2>3
  <2>6. committed' \subseteq 1 .. last_seqno'
    BY <1>1, <2>2, <2>3, SMT
  <2> QED
    BY <2>4, <2>5, <2>6 DEF Numbers
<1>4. Slots'
  <2>1. Hidden(w)'
    BY <1>1 DEF Hidden
  <2> QED
    BY <1>1, <2>1, SlotsKept DEF RingInv
<1>5. Seen'
  BY <1>1, SeenKept DEF RingInv
<1>6. Reserved'
  <2>1. SameBytes
    BY <1>1, <1>2 DEF SameBytes, HasBytes, InFlight, Unfilled, OnlyWriter
  <2> QED
    BY <1>1, <2>1, ReservedKept DEF RingInv, SameData
<1>7. Window'
  BY <1>1, WindowKept, TypeFacts, SMT DEF RingInv
<1>8. Payloads'
  BY <1>1, PayloadsKept, TypeFacts, SMT DEF RingInv, SameData
<1> QED
  BY <1>3, <1>4, <1>5, <1>6, <1>7, <1>8 DEF RingInv

LEMMA AllocBytesInv ==
  ASSUME Types, Types', RingInv, NEW w \in Writers, AllocBytes(w), ~late', UNCHANGED reader
  PROVE  RingInv'
<1>1. /\ OnlyWriter(w) /\ Keeps(w) /\ writer'[w].pc = "clear" /\ writer[w].pc = "bytes"
      /\ writer'[w].begin = next_payload_byte
      /\ next_payload_byte' = next_payload_byte + writer[w].size
      /\ UNCHANGED <<last_seqno, buffer_window_start, descriptors, payload_buf, committed>>
  BY AllocBytesMoves DEF AllocBytes
<1>2. /\ next_payload_byte \in Nat /\ writer[w].size \in Nat /\ buffer_window_start \in Int
      /\ End(w)' = next_payload_byte' /\ Incr \in Nat
      /\ \A v \in Writers : End(v) \in Nat /\ writer[v].begin \in Nat
  BY <1>1, TypeFacts, WriterFacts, Constants DEF Keeps, End
<1>3. \A v \in HasBytes' : v # w => /\ v \in HasBytes /\ v \in Writers
                                    /\ writer'[v] = writer[v] /\ End(v)' = End(v)
  BY <1>1 DEF HasBytes, InFlight, OnlyWriter, End
<1>4. Numbers'
  BY <1>1, NumbersKept DEF RingInv
<1>5. Slots'
  <2>1. Hidden(w)'
    BY <1>1 DEF Hidden
  <2> QED
    BY <1>1, <2>1, SlotsKept DEF RingInv
<1>6. Seen'
  BY <1>1, SeenKept DEF RingInv
<1>7. Reserved'
  <2>1. \A v \in HasBytes : ~(next_payload_byte' - End(v) > Incr)
    BY DEF AllocBytes, OvertakenBy, End
  <2>2. \A v \in HasBytes : End(v) <= next_payload_byte
    BY DEF RingInv, Reserved
  <2>3. \A v \in HasBytes' : End(v)' <= next_payload_byte' /\ next_payload_byte' - End(v)' <= Incr
    BY <1>1, <1>2, <1>3, <2>1, <2>2, SMT
  <2>4. \A u, v \in HasBytes' : u # v => End(u)' <= writer'[v].begin \/ End(v)' <= writer'[u].begin
    <3> SUFFICES ASSUME NEW u \in HasBytes', NEW v \in HasBytes', u # v
                 PROVE  End(u)' <= writer'[v].begin \/ End(v)' <= writer'[u].begin
      OBVIOUS
    <3>1. CASE u = w
      BY <3>1, <1>1, <1>3, <2>2
    <3>2. CASE v = w
      BY <3>2, <1>1, <1>3, <2>2
    <3> QED
      BY <3>1, <3>2, <1>3 DEF RingInv, Reserved
  <2>5. ASSUME NEW d \in Descriptor, Apart(d)
        PROVE  /\ d.offset + d.size <= next_payload_byte'
               /\ \A v \in Unfilled' : d.offset + d.size <= writer'[v].begin \/ End(v)' <= d.offset
    <3>1. d.offset + d.size \in Nat /\ d.offset + d.size <= next_payload_byte
      BY <2>5, SMT DEF Apart, Descriptor
    <3>2. \A v \in Unfilled' : v = w \/ (v \in Unfilled /\ writer'[v] = writer[v] /\ End(v)' = End(v))
      BY <1>1, SMTT(30) DEF Unfilled, OnlyWriter, End
    <3> QED
      BY <1>1, <1>2, <2>5, <3>1, <3>2, SMT DEF Apart
  <2>6. /\ \A k \in 0 .. Cap - 1 : Apart(descriptors[k])'
        /\ Apart(reader.event)'
    BY <1>1, <2>5, TypeFacts DEF RingInv, Reserved, Apart
  <2> QED
    BY <2>3, <2>4, <2>6 DEF Reserved
<1>8. Window'
  BY <1>1, <1>2, WindowKept, SMT DEF RingInv
<1>9. Payloads'
  BY <1>1, <1>2, PayloadsKept, SMT DEF RingInv, SameData
<1> QED
  BY <1>4, <1>5, <1>6, <1>7, <1>8, <1>9 DEF RingInv

(* A step of a writer that has its bytes and keeps them reserves nothing. *)
LEMMA SameBytesKept ==
  ASSUME NEW w \in Writers, OnlyWriter(w), Keeps(w), writer'[w].begin = writer[w].begin,
         writer[w].pc \notin {"idle", "bytes"}, w \in Unfilled' => w \in Unfilled,
         next_payload_byte' = next_payload_byte
  PROVE  SameBytes
  BY DEF SameBytes, HasBytes, InFlight, Unfilled, OnlyWriter, Keeps

(* A step that writes the slot of w leaves the slots of the others alone. *)
LEMMA OthersHidden ==
  ASSUME Types, Numbers, Slots, NEW w \in InFlight, OnlyWriter(w),
         OnlySlot(Slot(writer[w].seqno)), NEW v \in Writers, v # w
  PROVE  Hidden(v)'
<1>1. writer'[v] = writer[v]
  BY DEF OnlyWriter
<1>2. CASE v \in InFlight
  <2>1. At(writer[v].seqno)' = At(writer[v].seqno)
    <3>1. Slot(writer[v].seqno) # Slot(writer[w].seqno)
      BY <1>2, OwnSlot
    <3>2. Slot(writer[v].seqno) \in 0 .. Cap - 1
      BY WriterFacts
    <3> QED
      BY <1>1, <3>1, <3>2 DEF At, OnlySlot
  <2> QED
    BY <1>1, <2>1 DEF Hidden, Slots
<1>3. CASE v \notin InFlight
  BY <1>1, <1>3 DEF Hidden, InFlight
<1> QED
  BY <1>2, <1>3

LEMMA ClearSeqnoInv ==
  ASSUME Types, Types', RingInv, NEW w \in Writers, ClearSeqno(w), UNCHANGED reader
  PROVE  RingInv'
<1> DEFINE k == Slot(writer[w].seqno)
<1>1. /\ OnlyWriter(w) /\ Keeps(w) /\ writer'[w].pc = "window" /\ writer[w].pc = "clear"
      /\ writer'[w].begin = writer[w].begin
      /\ UNCHANGED <<last_seqno, next_payload_byte, buffer_window_start, payload_buf, committed>>
  BY ClearSeqnoMoves DEF ClearSeqno, control
<1>2. /\ k \in 0 .. Cap - 1 /\ OnlySlot(k) /\ descriptors'[k].seqno = 0
      /\ SameData
  BY ClearSeqnoStores DEF SameData, OnlySlot
<1>3. w \in InFlight
  BY <1>1 DEF InFlight
<1>4. Numbers'
  BY <1>1, NumbersKept DEF RingInv
<1>5. Slots'
  <2>1. \A j \in 0 .. Cap - 1 : Shown(descriptors[j])'
    BY <1>1, <1>2 DEF Shown, OnlySlot, RingInv, Slots
  <2>2. At(writer[w].seqno)'.seqno = 0
    BY <1>1, <1>2 DEF At, Keeps
  <2>3. Hidden(w)'
    BY <1>1, <2>2 DEF Hidden
  <2>4. \A v \in Writers : v # w => Hidden(v)'
    BY <1>1, <1>2, <1>3, OthersHidden DEF RingInv
  <2> QED
    BY <2>1, <2>3, <2>4 DEF Slots
<1>6. Seen'
  <2>1. \A j \in 0 .. Cap - 1 : descriptors'[j].seqno \in {descriptors[j].seqno, 0}
    BY <1>2 DEF OnlySlot
  <2> QED
    BY <1>1, <2>1, SeenKept DEF RingInv
<1>7. Reserved'
  <2>1. SameBytes
    BY <1>1, SameBytesKept DEF Unfilled
  <2> QED
    BY <1>2, <2>1, ReservedKept DEF RingInv
<1>8. Window'
  BY <1>1, WindowKept, TypeFacts, SMT DEF RingInv
<1>9. Payloads'
  BY <1>1, <1>2, PayloadsKept, TypeFacts, SMT DEF RingInv
<1> QED
  BY <1>4, <1>5, <1>6, <1>7, <1>8, <1>9 DEF RingInv

(* No window start is beyond the end of bytes that are being filled: the   *)
(* unsigned distance in must-slide does not wrap.                          *)
LEMMA NoWrap ==
  ASSUME Types, Reserved, Window, NEW w \in HasBytes
  PROVE  buffer_window_start <= End(w)
<1>1. /\ End(w) \in Nat /\ next_payload_byte \in Nat /\ buffer_window_start \in Int
      /\ next_payload_byte - End(w) <= Incr
  BY WriterFacts, TypeFacts DEF HasBytes, InFlight, Reserved
<1>2. \/ buffer_window_start <= 0
      \/ buffer_window_start <= next_payload_byte + 2 * Incr - 1 - BufSize
  BY DEF Window
<1> QED
  BY <1>1, <1>2, Constants, SMTT(30)

LEMMA LoadWindowInv ==
  ASSUME Types, Types', RingInv, NEW w \in Writers, LoadWindow(w), UNCHANGED reader
  PROVE  RingInv'
<1>1. /\ OnlyWriter(w) /\ Keeps(w) /\ writer[w].pc = "window"
      /\ writer'[w].begin = writer[w].begin /\ writer'[w].seen = buffer_window_start
      /\ writer'[w].pc = (IF MustSlide(writer[w].begin, writer[w].size) THEN "slide" ELSE "fill")
      /\ UNCHANGED <<last_seqno, next_payload_byte, buffer_window_start, descriptors,
                     payload_buf, committed>>
  BY LoadWindowMoves DEF LoadWindow, ring, control
<1>2. w \in HasBytes
  BY <1>1 DEF HasBytes, InFlight
<1>3. Numbers'
  BY <1>1, NumbersKept DEF RingInv
<1>4. Slots'
  <2>1. Hidden(w)'
    BY <1>1 DEF Hidden, RingInv, Slots, At, Keeps
  <2> QED
    BY <1>1, <2>1, SlotsKept DEF RingInv
<1>5. Seen'
  BY <1>1, SeenKept DEF RingInv
<1>6. Reserved'
  <2>1. SameBytes
    BY <1>1, SameBytesKept, SMTT(30) DEF Unfilled
  <2> QED
    BY <1>1, <2>1, ReservedKept DEF RingInv, SameData
<1>7. Window'
  <2>1. /\ End(w) \in Nat /\ buffer_window_start \in Int /\ BufSize \in Nat /\ Incr \in Nat
        /\ Width = BufSize - Incr /\ buffer_window_start <= End(w)
        /\ MustSlide(writer[w].begin, writer[w].size)
             <=> (End(w) - buffer_window_start < 0 \/ End(w) - buffer_window_start > Width)
    BY <1>2, NoWrap, WriterFacts, TypeFacts, Constants, SMT DEF RingInv, MustSlide,
       End
  <2>2. MustSlide(writer[w].begin, writer[w].size) => End(w) - buffer_window_start > Width
    BY <2>1, SMT
  <2>3. ~MustSlide(writer[w].begin, writer[w].size) => buffer_window_start >= End(w) - BufSize
    BY <2>1, SMTT(30)
  <2>4. End(w)' = End(w)
    BY <1>1, SMTT(30) DEF End, Keeps
  <2>5. /\ writer'[w].pc = "slide" => /\ End(w)' - writer'[w].seen > Width
                                      /\ buffer_window_start' = writer'[w].seen
        /\ writer'[w].pc = "fill" => Cleared(w)'
    BY <1>1, <2>2, <2>3, <2>4, SMTT(30) DEF Cleared
  <2>6. \A v \in Writers : v # w => writer'[v] = writer[v] /\ End(v)' = End(v)
    BY <1>1, SMTT(30) DEF OnlyWriter, End
  <2> QED
    BY <1>1, <2>5, <2>6, SMTT(30) DEF RingInv, Window, Cleared
<1>8. Payloads'
  BY <1>1, PayloadsKept, TypeFacts, SMT DEF RingInv, SameData
<1> QED
  BY <1>3, <1>4, <1>5, <1>6, <1>7, <1>8 DEF RingInv

LEMMA SlideWindowInv ==
  ASSUME Types, Types', RingInv, NEW w \in Writers, SlideWindow(w), UNCHANGED reader
  PROVE  RingInv'
<1>1. /\ OnlyWriter(w) /\ Keeps(w) /\ writer[w].pc = "slide" /\ writer'[w].pc = "fill"
      /\ writer'[w].begin = writer[w].begin
      /\ UNCHANGED <<last_seqno, next_payload_byte, descriptors, payload_buf, committed>>
  BY SlideWindowMoves DEF SlideWindow
<1>2. w \in HasBytes
  BY <1>1 DEF HasBytes, InFlight
<1> DEFINE old == buffer_window_start
           new == buffer_window_start'
           npb == next_payload_byte
<1>3. /\ old \in Int /\ new \in Int /\ npb \in Nat /\ End(w) \in Nat /\ writer[w].seen \in Int
      /\ BufSize \in Nat /\ Incr \in Nat /\ Incr > 0 /\ Width = BufSize - Incr
  BY WriterFacts, TypeFacts, Constants DEF Types
<1>4. /\ old = writer[w].seen => new >= End(w) - Width /\ new <= End(w) + Incr - 1 - Width
      /\ old # writer[w].seen => new = old
  BY SlideWindowStores
<1>5. /\ End(w) - writer[w].seen > Width
      /\ old = writer[w].seen \/ old >= End(w) - BufSize
  BY <1>1 DEF RingInv, Window, Cleared
<1>6. /\ End(w) <= npb /\ npb - End(w) <= Incr
      /\ \A v \in HasBytes : End(v) <= npb
  BY <1>2 DEF RingInv, Reserved
<1>7. \A v \in Writers : End(v) \in Nat
  BY WriterFacts
<1>8. new >= old
  BY <1>3, <1>4, <1>5, SMT
<1>9. Numbers'
  BY <1>1, NumbersKept DEF RingInv
<1>10. Slots'
  <2>1. Hidden(w)'
    BY <1>1 DEF Hidden, RingInv, Slots, At, Keeps
  <2> QED
    BY <1>1, <2>1, SlotsKept DEF RingInv
<1>11. Seen'
  BY <1>1, SeenKept DEF RingInv
<1>12. Reserved'
  <2>1. SameBytes
    BY <1>1, SameBytesKept DEF Unfilled
  <2> QED
    BY <1>1, <2>1, ReservedKept DEF RingInv, SameData
<1>13. Window'
  <2>1. \/ old <= 0
        \/ old <= npb + 2 * Incr - 1 - BufSize
    BY DEF RingInv, Window
  <2>2. new # old => new >= npb - BufSize /\ new <= npb + 2 * Incr - 1 - BufSize
    BY <1>3, <1>4, <1>6, SMT
  <2>3. new >= End(w) - BufSize
    BY <1>3, <1>4, <1>5, SMT
  <2>4. \A v \in Writers : End(v)' = End(v)
    BY <1>1 DEF OnlyWriter, Keeps, End
  <2>5. \A v \in HasBytes : new # old => new >= End(v) - BufSize
    BY <1>3, <1>6, <1>7, <2>2, SMT DEF HasBytes, InFlight
  <2>6. \/ buffer_window_start' <= 0
        \/ buffer_window_start' <= next_payload_byte' + 2 * Incr - 1 - BufSize
    BY <1>1, <2>1, <2>2
  <2>7. Cleared(w)'
    BY <2>3, <2>4 DEF Cleared
  <2>8. ASSUME NEW v \in Writers, v # w
        PROVE  /\ writer'[v].pc = "slide" => /\ End(v)' - writer'[v].seen > Width
                                             /\ new = writer'[v].seen \/ Cleared(v)'
               /\ writer'[v].pc = "fill" => Cleared(v)'
    <3>1. writer'[v] = writer[v] /\ End(v)' = End(v)
      BY <1>1, <2>4, <2>8 DEF OnlyWriter
    <3>2. /\ writer[v].pc = "slide" => /\ End(v) - writer[v].seen > Width
                                       /\ old = writer[v].seen \/ old >= End(v) - BufSize
          /\ writer[v].pc = "fill" => old >= End(v) - BufSize
      BY DEF RingInv, Window, Cleared
    <3>3. writer[v].pc \in {"slide", "fill"} => v \in HasBytes
      BY DEF HasBytes, InFlight
    <3>4. new = old \/ new # old
      OBVIOUS
    <3> QED
      BY <3>1, <3>2, <3>3, <3>4, <2>5 DEF Cleared
  <2> QED
    BY <1>1, <2>6, <2>7, <2>8 DEF Window
<1>14. Payloads'
  BY <1>1, <1>8, PayloadsKept DEF RingInv, SameData
<1> QED
  BY <1>9, <1>10, <1>11, <1>12, <1>13, <1>14 DEF RingInv

-----------------------------------------------------------------------------
(* The last two steps of a writer.                                        *)

(* The bytes a writer fills belong to no payload that has not expired: the *)
(* two would lie a whole buffer apart.                                     *)
LEMMA FillsExpired ==
  ASSUME Types, RingInv, NEW w \in Writers, writer[w].pc = "fill",
         NEW d \in Descriptor, Apart(d), d.offset >= buffer_window_start,
         NEW i \in 0 .. d.size - 1, NEW j \in 0 .. writer[w].size - 1
  PROVE  (d.offset + i) % BufSize # (writer[w].begin + j) % BufSize
<1> DEFINE x == d.offset + i
           y == writer[w].begin + j
           b == writer[w].begin
           n == writer[w].size
           win == buffer_window_start
           npb == next_payload_byte
<1>1. w \in HasBytes /\ w \in Unfilled
  BY DEF HasBytes, InFlight, Unfilled
<1>2. /\ b \in Nat /\ n \in Nat /\ win \in Int /\ npb \in Nat
      /\ d.offset \in Nat /\ d.size \in Nat
      /\ BufSize \in Nat /\ BufSize > 0 /\ Incr \in Nat /\ Incr > 0 /\ End(w) = b + n
      /\ x \in Int /\ y \in Int
  <2>1. b \in Nat /\ n \in Nat
    BY WriterFacts
  <2>2. win \in Int /\ npb \in Nat
    BY TypeFacts
  <2>3. d.offset \in Nat /\ d.size \in Nat
    BY DEF Descriptor
  <2>4. BufSize \in Nat /\ BufSize > 0 /\ Incr \in Nat /\ Incr > 0
    BY Constants, SMT
  <2> QED
    BY <2>1, <2>2, <2>3, <2>4, SMT DEF End
<1>3. /\ win >= (b + n) - BufSize /\ npb - (b + n) <= Incr /\ n < BufSize - 2 * Incr
  <2>1. win >= (b + n) - BufSize
    BY DEF RingInv, Window, Cleared, End
  <2>2. npb - (b + n) <= Incr
    BY <1>1 DEF RingInv, Reserved, End
  <2>3. n < BufSize - 2 * Incr
    BY DEF Types
  <2> QED
    BY <2>1, <2>2, <2>3
<1>4. /\ d.offset + d.size <= npb
      /\ d.offset + d.size <= b \/ b + n <= d.offset
  BY <1>1 DEF Apart, End
<1>5. i \in Int /\ j \in Int /\ 0 <= i /\ i < d.size /\ 0 <= j /\ j < n
  BY <1>2, SMT
<1>6. ASSUME x % BufSize = y % BufSize PROVE FALSE
  <2>1. CASE d.offset + d.size <= b
    <3>1. x < y
      BY <1>2, <1>5, <2>1, SMT
    <3>2. x + BufSize <= y
      BY <1>2, <1>6, <3>1, ModApart
    <3> QED
      BY <1>2, <1>3, <1>5, <3>2, SMT
  <2>2. CASE b + n <= d.offset
    <3>1. y < x
      BY <1>2, <1>5, <2>2, SMT
    <3>2. y + BufSize <= x
      BY <1>2, <1>6, <3>1, ModApart
    <3> QED
      BY <1>2, <1>3, <1>4, <1>5, <3>2, SMT
  <2> QED
    BY <1>4, <2>1, <2>2
<1> QED
  BY <1>6

LEMMA FillInv ==
  ASSUME Types, Types', RingInv, NEW w \in Writers, Fill(w), UNCHANGED reader
  PROVE  RingInv'
<1>0. PICK k \in 0 .. Cap - 1 : k = Slot(writer[w].seqno)
  BY WriterFacts
<1>1. /\ OnlyWriter(w) /\ Keeps(w) /\ writer[w].pc = "fill" /\ writer'[w].pc = "commit"
      /\ writer'[w].begin = writer[w].begin
      /\ UNCHANGED <<last_seqno, next_payload_byte, buffer_window_start, committed>>
  BY FillMoves DEF Fill, control
<1>2. /\ k \in 0 .. Cap - 1 /\ OnlySlot(k)
      /\ descriptors'[k].seqno = descriptors[k].seqno
      /\ descriptors'[k].id = writer[w].seqno
      /\ descriptors'[k].offset = writer[w].begin
      /\ descriptors'[k].size = writer[w].size
      /\ \A u \in 0 .. BufSize - 1 :
           payload_buf'[u] = IF u \in Units(descriptors'[k]) THEN writer[w].seqno
                             ELSE payload_buf[u]
  BY <1>0, FillStores
<1>3. w \in InFlight /\ w \in HasBytes
  BY <1>1 DEF InFlight, HasBytes
<1>4. At(writer[w].seqno) = descriptors[k] /\ At(writer[w].seqno)' = descriptors'[k]
  BY <1>0, <1>1 DEF At, Keeps
<1>5. descriptors[k].seqno = 0
  BY <1>1, <1>4 DEF RingInv, Slots, Hidden
<1>6. Numbers'
  BY <1>1, NumbersKept DEF RingInv
<1>7. Slots'
  <2>1. \A j \in 0 .. Cap - 1 : Shown(descriptors[j])'
    BY <1>1, <1>2, <1>5 DEF Shown, OnlySlot, RingInv, Slots
  <2>2. Hidden(w)'
    BY <1>1, <1>2, <1>4, <1>5 DEF Hidden, Keeps
  <2>3. \A v \in Writers : v # w => Hidden(v)'
    BY <1>0, <1>1, <1>2, <1>3, OthersHidden DEF RingInv
  <2> QED
    BY <2>1, <2>2, <2>3 DEF Slots
<1>8. Seen'
  <2>1. \A j \in 0 .. Cap - 1 : descriptors'[j].seqno \in {descriptors[j].seqno, 0}
    BY <1>2 DEF OnlySlot
  <2> QED
    BY <1>1, <2>1, SeenKept DEF RingInv
<1>9. \A v \in Unfilled' : v # w /\ v \in Unfilled /\ v \in HasBytes
                           /\ writer'[v] = writer[v] /\ End(v)' = End(v)
  BY <1>1 DEF Unfilled, HasBytes, InFlight, OnlyWriter, End
<1>10. Reserved'
  <2>1. \A v \in HasBytes' : v \in HasBytes /\ writer'[v].begin = writer[v].begin /\ End(v)' = End(v)
    BY <1>1, <1>3 DEF HasBytes, InFlight, OnlyWriter, Keeps, End
  <2>2. ASSUME NEW d, Apart(d)
        PROVE  /\ d.offset + d.size <= next_payload_byte'
               /\ \A v \in Unfilled' : d.offset + d.size <= writer'[v].begin \/ End(v)' <= d.offset
    BY <1>1, <1>9, <2>2 DEF Apart
  <2>3. Apart(descriptors[k])'
    <3>1. descriptors'[k].offset + descriptors'[k].size = End(w)
      BY <1>2 DEF End
    <3> QED
      BY <1>1, <1>2, <1>3, <1>9, <3>1 DEF Apart, RingInv, Reserved
  <2>4. /\ \A j \in 0 .. Cap - 1 : Apart(descriptors[j])'
        /\ Apart(reader.event)'
    BY <1>2, <2>2, <2>3 DEF RingInv, Reserved, Apart, OnlySlot
  <2>5. \A v \in HasBytes' : End(v)' <= next_payload_byte' /\ next_payload_byte' - End(v)' <= Incr
    BY <1>1, <2>1 DEF RingInv, Reserved
  <2>6. \A u, v \in HasBytes' : u # v => End(u)' <= writer'[v].begin \/ End(v)' <= writer'[u].begin
    BY <2>1 DEF RingInv, Reserved
  <2> QED
    BY <2>4, <2>5, <2>6 DEF Reserved
<1>11. Window'
  BY <1>1, WindowKept, TypeFacts, SMT DEF RingInv
<1>12. Payloads'
  <2>1. ASSUME NEW d \in Descriptor, Apart(d), Intact(d), d.offset >= buffer_window_start,
               NEW u \in Units(d)
        PROVE  payload_buf'[u] = d.id
    <3>1. u \in 0 .. BufSize - 1 /\ payload_buf[u] = d.id
      BY <2>1, UnitsFacts DEF Intact
    <3>2. u \notin Units(descriptors'[k])
      <4> SUFFICES ASSUME u \in Units(descriptors'[k]) PROVE FALSE
        OBVIOUS
      <4>1. PICK i \in 0 .. d.size - 1 : u = (d.offset + i) % BufSize
        BY DEF Units
      <4>2. PICK j \in 0 .. writer[w].size - 1 : u = (writer[w].begin + j) % BufSize
        BY <1>2 DEF Units
      <4> QED
        BY <1>1, <2>1, <4>1, <4>2, FillsExpired
    <3> QED
      BY <1>2, <3>1, <3>2
  <2>2. ASSUME NEW j \in 0 .. Cap - 1 PROVE Intact(descriptors[j])'
    <3>1. CASE j = k
      <4>1. descriptors'[k] \in Descriptor
        BY <1>2, TypeFacts DEF OnlySlot
      <4>2. Units(descriptors'[k]) \subseteq 0 .. BufSize - 1
        BY <4>1, UnitsFacts
      <4>3. Units(descriptors[k])' = Units(descriptors'[k])
        BY DEF Units
      <4> QED
        BY <1>2, <3>1, <4>2, <4>3 DEF Intact
    <3>2. CASE j # k
      <4>1. /\ descriptors'[j] = descriptors[j] /\ descriptors[j] \in Descriptor
            /\ Apart(descriptors[j]) /\ Intact(descriptors[j])
        BY <1>2, <3>2, TypeFacts DEF OnlySlot, RingInv, Reserved, Payloads
      <4>2. Units(descriptors[j])' = Units(descriptors[j])
        BY <4>1 DEF Units
      <4> QED
        BY <1>1, <2>1, <4>1, <4>2 DEF Intact
    <3> QED
      BY <3>1, <3>2
  <2>3. Intact(reader.event)'
    <3>1. reader.event \in Descriptor /\ Apart(reader.event) /\ Intact(reader.event)
      BY TypeFacts DEF RingInv, Reserved, Payloads
    <3>2. Units(reader.event)' = Units(reader.event)
      BY DEF Units
    <3> QED
      BY <1>1, <2>1, <3>1, <3>2 DEF Intact
  <2> QED
    BY <1>1, <2>2, <2>3 DEF RingInv, Payloads
<1> QED
  BY <1>6, <1>7, <1>8, <1>10, <1>11, <1>12 DEF RingInv

LEMMA CommitInv ==
  ASSUME Types, Types', RingInv, NEW w \in Writers, Commit(w), UNCHANGED reader
  PROVE  RingInv'
<1> DEFINE k == Slot(writer[w].seqno)
           n == writer[w].seqno
<1>1. /\ OnlyWriter(w) /\ writer[w].pc = "commit" /\ writer'[w].pc = "idle"
      /\ committed' = committed \union {n}
      /\ UNCHANGED <<last_seqno, next_payload_byte, buffer_window_start, payload_buf>>
  BY CommitMoves DEF Commit, control
<1>2. /\ k \in 0 .. Cap - 1 /\ OnlySlot(k) /\ descriptors'[k].seqno = n
      /\ descriptors'[k].id = descriptors[k].id
      /\ SameData
  BY CommitStores DEF SameData, OnlySlot
<1>3. w \in InFlight /\ n \notin committed /\ n <= last_seqno
  BY <1>1 DEF InFlight, RingInv, Numbers
<1>4. descriptors[k].id = n
  BY <1>1 DEF RingInv, Slots, Hidden, At
<1>5. n \in 1 .. last_seqno
  BY <1>1, <1>3, WriterFacts, TypeFacts, Constants, SMT DEF Types
<1> HIDE DEF k, n
<1>6. Numbers'
  <2>1. \A v \in InFlight' : v \in InFlight /\ v # w /\ writer'[v].seqno = writer[v].seqno
    BY <1>1 DEF InFlight, OnlyWriter
  <2>2. \A v \in InFlight' : writer[v].seqno # n
    BY <1>3, <2>1 DEF RingInv, Numbers, n
  <2>3. Numbers /\ last_seqno' = last_seqno /\ committed' = committed \union {n}
    BY <1>1 DEF RingInv, n
  <2>4. committed' \subseteq 1 .. last_seqno'
    BY <1>5, <2>3 DEF Numbers
  <2>5. ASSUME NEW v \in InFlight'
        PROVE  /\ writer'[v].seqno <= last_seqno' /\ last_seqno' - writer'[v].seqno < Cap
               /\ writer'[v].seqno \notin committed'
    BY <2>1, <2>2, <2>3, <2>5 DEF Numbers
  <2> QED
    BY <2>1, <2>3, <2>4, <2>5 DEF Numbers
<1>7. Slots'
  <2>1. \A j \in 0 .. Cap - 1 : Shown(descriptors[j])'
    BY <1>1, <1>2, <1>4 DEF Shown, OnlySlot, RingInv, Slots
  <2>2. Hidden(w)'
    BY <1>1 DEF Hidden
  <2>3. \A v \in Writers : v # w => Hidden(v)'
    BY <1>1, <1>2, <1>3, OthersHidden DEF RingInv, k
  <2> QED
    BY <2>1, <2>2, <2>3 DEF Slots
<1>8. Seen'
  <2>1. \A j \in 0 .. Cap - 1 : \/ descriptors'[j].seqno \in {descriptors[j].seqno, 0}
                                \/ descriptors'[j].seqno \notin committed
    BY <1>2, <1>3 DEF OnlySlot
  <2> QED
    BY <1>1, <2>1, SeenKept DEF RingInv
<1>9. Reserved'
  <2>1. SameBytes
    BY <1>1 DEF SameBytes, HasBytes, InFlight, Unfilled, OnlyWriter
  <2> QED
    BY <1>2, <2>1, ReservedKept DEF RingInv
<1>10. Window'
  BY <1>1, WindowKept, TypeFacts, SMT DEF RingInv
<1>11. Payloads'
  BY <1>1, <1>2, PayloadsKept, TypeFacts, SMT DEF RingInv
<1> QED
  BY <1>6, <1>7, <1>8, <1>9, <1>10, <1>11 DEF RingInv

-----------------------------------------------------------------------------
(* Every step of the reader keeps the invariant.                           *)

(* What the reader may hold: nothing, what it held, or a slot's contents. *)
LEMMA Holds ==
  ASSUME Types, RingInv
  PROVE  /\ Apart(NoEvent) /\ Intact(NoEvent)
         /\ Apart(reader.event) /\ Intact(reader.event)
         /\ \A s \in Int : Apart(At(s)) /\ Intact(At(s)) /\ Shown(At(s))
<1>1. Intact(NoEvent)
  BY NoUnits, SMT DEF Intact, NoEvent
<1>2. Apart(NoEvent)
  <2>1. next_payload_byte \in Nat /\ \A v \in Unfilled : writer[v].begin \in Nat
    BY TypeFacts, WriterFacts DEF Unfilled
  <2> QED
    BY <2>1, SMT DEF Apart, NoEvent
<1> QED
  BY <1>1, <1>2, SlotFacts DEF At, RingInv, Reserved, Payloads, Slots

LEMMA ReadKept ==
  ASSUME RingInv, UNCHANGED <<ring, writer, committed>>,
         Apart(reader'.event), Intact(reader'.event), Seen',
         reader'.pc = "recheck" /\ reader'.event.offset >= buffer_window_start =>
           reader'.bytes \subseteq {reader'.event.id}
  PROVE  RingInv'
<1>1. UNCHANGED <<last_seqno, next_payload_byte, buffer_window_start, descriptors,
                  payload_buf, writer, committed>>
  BY DEF ring, control
<1>2. InFlight' = InFlight /\ HasBytes' = HasBytes /\ Unfilled' = Unfilled
  BY <1>1 DEF InFlight, HasBytes, Unfilled
<1>3. Numbers'
  BY <1>1, <1>2, SMT DEF RingInv, Numbers
<1>4. Slots'
  BY <1>1 DEF RingInv, Slots, Shown, Hidden, At
<1>5. Reserved'
  BY <1>1, <1>2 DEF RingInv, Reserved, Apart, End
<1>6. Window'
  BY <1>1 DEF RingInv, Window, Cleared, End
<1>7. Payloads'
  BY <1>1, SMT DEF RingInv, Payloads, Intact, Units
<1> QED
  BY <1>3, <1>4, <1>5, <1>6, <1>7 DEF RingInv

(* A step after which the reader relies on no number it saw. *)
LEMMA UnseenKept ==
  ASSUME RingInv, UNCHANGED <<ring, writer, committed>>,
         Apart(reader'.event), Intact(reader'.event),
         reader'.pc \notin {"copy", "reload", "verify", "recheck"}
  PROVE  RingInv'
<1>1. Seen'
  BY DEF Seen
<1> QED
  BY <1>1, ReadKept

LEMMA PollInv ==
  ASSUME Types, RingInv, UNCHANGED <<ring, writer, committed>>, Poll
  PROVE  RingInv'
<1>1. /\ reader \in ReaderType /\ NextSeqno \in Int /\ NextSeqno # 0
      /\ reader.pc = "poll"
  BY TypeFacts, SMT DEF Types, NextSeqno, Poll
<1>2. Apart(reader.event) /\ Intact(reader.event) /\ Shown(At(NextSeqno))
  BY <1>1, Holds
<1>3. CASE At(NextSeqno).seqno = NextSeqno
  <2>1. reader' = [reader EXCEPT !.pc = "copy"]
    BY <1>3 DEF Poll
  <2>2. /\ reader'.pc = "copy" /\ reader'.event = reader.event /\ reader'.last = reader.last
    BY <1>1, <2>1 DEF ReaderType
  <2>3. NextSeqno \in committed
    BY <1>1, <1>2, <1>3 DEF Shown
  <2>4. Seen'
    BY <2>2, <2>3 DEF Seen, NextSeqno
  <2> QED
    BY <1>2, <2>2, <2>4, ReadKept
<1>4. CASE At(NextSeqno).seqno # NextSeqno
  <2>1. reader' = [reader EXCEPT !.pc = "reset"] \/ reader' = reader
    BY <1>4 DEF Poll
  <2>2. reader'.pc \in {"poll", "reset"} /\ reader'.event = reader.event
    BY <1>1, <2>1 DEF ReaderType
  <2> QED
    BY <1>2, <2>2, UnseenKept
<1> QED
  BY <1>3, <1>4

LEMMA CopyDescriptorInv ==
  ASSUME Types, RingInv, UNCHANGED <<ring, writer, committed>>, CopyDescriptor
  PROVE  RingInv'
<1>1. /\ reader \in ReaderType /\ NextSeqno \in Int /\ NextSeqno # 0 /\ reader.pc = "copy"
      /\ reader' = [reader EXCEPT !.pc = "reload", !.event = At(NextSeqno)]
  BY TypeFacts, SMT DEF Types, NextSeqno, CopyDescriptor
<1>2. /\ reader'.pc = "reload" /\ reader'.event = At(NextSeqno) /\ reader'.last = reader.last
  BY <1>1 DEF ReaderType
<1>3. Apart(At(NextSeqno)) /\ Intact(At(NextSeqno)) /\ Shown(At(NextSeqno))
  BY <1>1, Holds
<1>4. NextSeqno \in committed
  BY <1>1 DEF RingInv, Seen
<1>5. NextSeqno' = NextSeqno /\ At(NextSeqno)' = At(NextSeqno)
  BY <1>2 DEF NextSeqno, At, ring
<1>6. Seen'
  BY <1>1, <1>2, <1>3, <1>4, <1>5 DEF Seen, Shown
<1> QED
  BY <1>2, <1>3, <1>6, ReadKept

LEMMA MemcpyInv ==
  ASSUME Types, RingInv, UNCHANGED <<ring, writer, committed>>, Memcpy
  PROVE  RingInv'
<1> DEFINE copy == {payload_buf[u] : u \in Units(reader.event)}
<1>1. /\ reader \in ReaderType /\ reader.event \in Descriptor
      /\ reader' = [reader EXCEPT !.pc = "recheck", !.bytes = copy]
  BY TypeFacts DEF Types, Memcpy
<1>2. Apart(reader.event) /\ Intact(reader.event)
  BY Holds
<1>3. reader.event.offset >= buffer_window_start => copy \subseteq {reader.event.id}
  BY <1>2 DEF Intact
<1> HIDE DEF copy
<1>4. /\ reader'.pc = "recheck" /\ reader'.event = reader.event /\ reader'.bytes = copy
  BY <1>1 DEF ReaderType
<1>5. Seen'
  BY <1>4 DEF Seen
<1> QED
  BY <1>2, <1>3, <1>4, <1>5, ReadKept

LEMMA TryCopyInv ==
  ASSUME Types, RingInv, UNCHANGED <<ring, writer, committed>>,
         NEW seqno \in 1 .. MaxEvents, TryCopy(seqno)
  PROVE  RingInv'
<1> DEFINE known == seqno \in committed
<1>1. /\ reader \in ReaderType /\ seqno \in Int /\ seqno # 0
      /\ reader' = [reader EXCEPT !.pc = "verify", !.want = seqno, !.event = At(seqno),
                                  !.known = known]
  BY SMT DEF Types, TryCopy
<1>2. Apart(At(seqno)) /\ Intact(At(seqno)) /\ Shown(At(seqno))
  BY <1>1, Holds
<1> HIDE DEF known
<1>3. /\ reader'.pc = "verify" /\ reader'.want = seqno /\ reader'.event = At(seqno)
      /\ reader'.known = known
  BY <1>1 DEF ReaderType
<1>4. At(reader.want)' = At(seqno) /\ committed' = committed
  BY <1>3 DEF At, ring
<1>5. known => seqno \in committed
  BY DEF known
<1>6. Seen'
  BY <1>1, <1>2, <1>3, <1>4, <1>5 DEF Seen, Shown
<1> QED
  BY <1>2, <1>3, <1>6, ReadKept

LEMMA IterateInv ==
  ASSUME Types, RingInv, UNCHANGED <<ring, writer, committed>>, Iterate
  PROVE  RingInv'
<1>1. reader \in ReaderType
  BY DEF Types
<1>2. ASSUME reader'.event \in {reader.event, NoEvent},
             reader'.pc \notin {"copy", "reload", "verify", "recheck"}
      PROVE  RingInv'
  BY <1>2, Holds, UnseenKept
<1>3. CASE Reload
  BY <1>1, <1>2, <1>3 DEF Reload, ReaderType
<1>4. CASE Check
  BY <1>1, <1>2, <1>4 DEF Check, ReaderType
<1>5. CASE Recheck
  BY <1>1, <1>2, <1>5 DEF Recheck, ReaderType
<1>6. CASE Reset
  BY <1>1, <1>2, <1>6 DEF Reset, ReaderType
<1>7. CASE ScanFound
  BY <1>1, <1>2, <1>7 DEF ScanFound, ReaderType
<1>8. CASE ScanGiveUp
  BY <1>1, <1>2, <1>8 DEF ScanGiveUp, ReaderType
<1>9. CASE Verify
  BY <1>1, <1>2, <1>9 DEF Verify, ReaderType
<1> QED
  BY <1>3, <1>4, <1>5, <1>6, <1>7, <1>8, <1>9, PollInv, CopyDescriptorInv,
     MemcpyInv DEF Iterate

-----------------------------------------------------------------------------
(* The theorems.                                                           *)

LEMMA ReserveInv ==
  ASSUME Types, Types', RingInv, NEW w \in Writers, Reserve(w), ~late', UNCHANGED reader
  PROVE  RingInv'
  BY AllocBytesInv, ClearSeqnoInv, LoadWindowInv, SlideWindowInv, FillInv,
     CommitInv DEF Reserve

(* Once a writer was overtaken, that is remembered. *)
LEMMA Late ==
  ASSUME Flags, [Next]_vars PROVE Flags' /\ (late => late')
<1>1. alive' \in BOOLEAN
  BY DEF Flags, Next, Record, Read, Die, vars
<1>2. ASSUME NEW a, NEW b, NEW c, a = (b \/ c) PROVE a \in BOOLEAN /\ (b => a)
  BY <1>2
<1>3. ASSUME NEW w \in Writers, NEW size \in Sizes, AllocSeqno(w, size)
      PROVE  late' \in BOOLEAN /\ (late => late')
  BY <1>2, <1>3 DEF AllocSeqno
<1>4. ASSUME NEW w \in Writers, Reserve(w)
      PROVE  late' \in BOOLEAN /\ (late => late')
  <2>1. CASE AllocBytes(w)
    BY <1>2, <2>1 DEF AllocBytes
  <2>2. CASE ~AllocBytes(w)
    BY <1>4, <2>2 DEF Flags, Reserve, ClearSeqno, LoadWindow, SlideWindow, Fill,
       Commit
  <2> QED
    BY <2>1, <2>2
<1> QED
  BY <1>1, <1>3, <1>4 DEF Flags, Next, Record, Read, Die, vars

LEMMA NextIInv == IInv /\ [Next]_vars => IInv'
<1> SUFFICES ASSUME IInv, [Next]_vars PROVE IInv'
  OBVIOUS
<1>1. Types /\ Flags /\ (~late => RingInv)
  BY DEF IInv
<1>2. Flags' /\ (late => late')
  BY <1>1, Late
<1> SUFFICES Types' /\ (~late' => RingInv')
  BY <1>2 DEF IInv
<1>3. ~late' => RingInv
  BY <1>1, <1>2
<1>4. ASSUME NEW w \in Writers, NEW size \in Sizes,
             AllocSeqno(w, size), UNCHANGED <<alive, reader>>
      PROVE  Types' /\ (~late' => RingInv')
  BY <1>1, <1>3, <1>4, AllocSeqnoTypes, AllocSeqnoInv
<1>5. ASSUME NEW w \in Writers, Record(w)
      PROVE  Types' /\ (~late' => RingInv')
  <2>1. Reserve(w) /\ UNCHANGED reader
    BY <1>5 DEF Record
  <2> QED
    BY <1>1, <1>3, <2>1, ReserveTypes, ReserveInv
<1>6. CASE Read
  <2>1. Iterate /\ UNCHANGED <<ring, writer, committed>>
    BY <1>6 DEF Read
  <2> QED
    BY <1>1, <1>3, <2>1, IterateTypes, ReaderTypes, IterateInv
<1>7. ASSUME NEW seqno \in 1 .. MaxEvents, TryCopy(seqno),
             UNCHANGED <<ring, writer, alive, committed, late>>
      PROVE  Types' /\ (~late' => RingInv')
  BY <1>1, <1>3, <1>7, TryCopyTypes, ReaderTypes, TryCopyInv
<1>8. ASSUME UNCHANGED <<ring, writer, reader, committed>>
      PROVE  Types' /\ (~late' => RingInv')
  <2>1. Types'
    BY <1>1, <1>8 DEF Types, ring, control
  <2>2. ASSUME RingInv PROVE RingInv'
    <3>1. reader' = reader /\ Apart(reader'.event) /\ Intact(reader'.event)
      BY <1>1, <1>8, <2>2, Holds
    <3>2. Seen'
      BY <1>8, <2>2 DEF RingInv, Seen, NextSeqno, At, ring
    <3>3. reader'.pc = "recheck" /\ reader'.event.offset >= buffer_window_start =>
            reader'.bytes \subseteq {reader'.event.id}
      BY <2>2, <3>1 DEF RingInv, Payloads
    <3> QED
      BY <1>8, <2>2, <3>1, <3>2, <3>3, ReadKept
  <2> QED
    BY <1>3, <2>1, <2>2
<1>9. CASE Die \/ UNCHANGED vars
  BY <1>8, <1>9 DEF Die, vars
<1> QED
  BY <1>4, <1>5, <1>6, <1>7, <1>9 DEF Next

(* The invariant holds in every state the ring and its users can reach. *)
THEOREM Invariance == Spec => []IInv
  BY InitIInv, NextIInv, PTL DEF Spec

(* Type correctness: sequence numbers, slots, payload bytes and the        *)
(* records of writers and reader stay within their types.                  *)
THEOREM RingTypeCorrect == Spec => []TypeOK
<1>1. IInv => TypeOK
  BY TypesTypeOK DEF IInv
<1> QED
  BY <1>1, Invariance, PTL

(* A descriptor that the iterator's try_copy accepts, because the reload   *)
(* shows the expected number, holds that event, for every ring size and    *)
(* any number of writers, as long as none was overtaken by a whole lap.    *)
THEOREM AcceptedDescriptors == Spec => []AcceptedIntact
<1>1. IInv => AcceptedIntact
  BY DEF IInv, RingInv, Seen, AcceptedIntact
<1> QED
  BY <1>1, Invariance, PTL

(* Random access with monad_event_ring_try_copy to an event that was       *)
(* committed before the call fails or returns that event.                  *)
THEOREM KnownCopies == Spec => []KnownCopyIntact
<1>1. IInv => KnownCopyIntact
  BY DEF IInv, RingInv, Seen, KnownCopyIntact
<1> QED
  BY <1>1, Invariance, PTL

(* A payload copy that passes the window check after memcpy consists of    *)
(* the bytes of its event, for every buffer size, window increment and     *)
(* payload size that RingAssumption admits.                                *)
THEOREM AcceptedPayloads == Spec => []PayloadIntact
<1>1. IInv => PayloadIntact
  BY DEF IInv, RingInv, Payloads, PayloadIntact, PayloadCheck
<1> QED
  BY <1>1, Invariance, PTL

(* The truncation of large payloads in reserve_block_event is enough:      *)
(* until it is committed a payload expires by no more bytes than were      *)
(* reserved after it.                                                      *)
THEOREM FreshPayloads == Spec => []NotExpiredOnCreation
<1>1. ASSUME IInv, ~late, NEW w \in Writers, writer[w].pc \in {"fill", "commit"}
      PROVE  buffer_window_start - writer[w].begin
               <= next_payload_byte - (writer[w].begin + writer[w].size)
  <2>1. Types /\ Reserved /\ Window /\ w \in HasBytes
    BY <1>1 DEF IInv, RingInv, HasBytes, InFlight
  <2>2. /\ writer[w].begin \in Nat /\ writer[w].size \in Nat
        /\ next_payload_byte \in Nat /\ buffer_window_start \in Int
    BY <2>1, WriterFacts, TypeFacts
  <2>3. writer[w].size < BufSize - 2 * Incr
    BY <1>1, <2>1 DEF Types
  <2>4. writer[w].begin + writer[w].size <= next_payload_byte
    BY <2>1 DEF Reserved, End
  <2>5. \/ buffer_window_start <= 0
        \/ buffer_window_start <= next_payload_byte + 2 * Incr - 1 - BufSize
    BY <2>1 DEF Window
  <2> QED
    BY <2>2, <2>3, <2>4, <2>5, Constants, SMT
<1>2. IInv => NotExpiredOnCreation
  BY <1>1 DEF NotExpiredOnCreation
<1> QED
  BY <1>2, Invariance, PTL
=============================================================================
