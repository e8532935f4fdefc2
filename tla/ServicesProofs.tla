--------------------------- MODULE ServicesProofs ---------------------------
(***************************************************************************)
(* RecordsAddUp of LogCapture, for every queue and batch size, logger      *)
(* hierarchy and level.                                                    *)
(*                                                                         *)
(* Approvals implements ApprovalGate, and loses an effect only by a crash, *)
(* for any number of requests, users and processes.                        *)
(***************************************************************************)
EXTENDS Approvals, LogCapture, TLAPS

\* A thread holds records only between taking a batch and counting it, and
\* the writer is not there before the models are ready.
HandsAreEmpty ==
    /\ Writer.pc \in {"off", "take", "poll"} => Writer.hand = 0
    /\ Closer.pc \in {"off", "flush", "join", "last", "closed"} => Closer.hand = 0
    /\ ~ready => Writer.pc = "off"

LogCaptureInv == LogCaptureTypeOK /\ HandsAreEmpty /\ RecordsAddUp

WriterPCs == {"off", "take", "write", "written", "dropped", "poll"}
CloserPCs == {"off", "flush", "write", "written", "dropped", "join", "last", "closed"}

-----------------------------------------------------------------------------
\* The initial states satisfy the invariant.
LEMMA LogCaptureInitially == LogCaptureInit => LogCaptureInv
  <1> SUFFICES ASSUME LogCaptureInit PROVE LogCaptureInv
    OBVIOUS
  <1>1. Unused \in Thread(WriterPCs) /\ Unused \in Thread(CloserPCs)
    BY LogCaptureAssumption DEF Unused, Thread, WriterPCs, CloserPCs
  <1>2. /\ ready \in BOOLEAN /\ stopping \in BOOLEAN /\ noTable \in BOOLEAN
        /\ migrated \in BOOLEAN /\ hurried \in BOOLEAN /\ DOMAIN saved \subseteq Loggers
    BY DEF LogCaptureInit
  <1>3. /\ queue \in 0 .. QueueSize /\ offered \in 0 .. MaxRecords /\ missed \in Int
        /\ counts \in [written : Nat, dropped : Nat]
    BY LogCaptureAssumption DEF LogCaptureInit
  <1>4. LogCaptureTypeOK
    BY <1>1, <1>2, <1>3 DEF LogCaptureInit, LogCaptureTypeOK, WriterPCs, CloserPCs
  <1>5. HandsAreEmpty /\ RecordsAddUp
    BY DEF LogCaptureInit, HandsAreEmpty, RecordsAddUp, Unused, Writer, Closer
  <1> QED
    BY <1>4, <1>5 DEF LogCaptureInv

\* The invariant, taken apart.
LEMMA Parts ==
  ASSUME LogCaptureInv
  PROVE  /\ Writer \in Thread(WriterPCs) /\ Closer \in Thread(CloserPCs)
         /\ threads = [writer |-> Writer, closer |-> Closer]
         /\ Writer.hand \in 0 .. BatchSize /\ Closer.hand \in 0 .. BatchSize
         /\ queue \in 0 .. QueueSize /\ QueueSize \in Nat \ {0} /\ BatchSize \in Nat \ {0}
         /\ counts \in [written : Nat, dropped : Nat]
         /\ counts.written \in Nat /\ counts.dropped \in Nat
         /\ offered \in 0 .. MaxRecords /\ MaxRecords \in Nat /\ missed \in Int
         /\ ready \in BOOLEAN /\ stopping \in BOOLEAN /\ noTable \in BOOLEAN
         /\ migrated \in BOOLEAN /\ hurried \in BOOLEAN /\ DOMAIN saved \subseteq Loggers
         /\ Writer.pc \in {"off", "take", "poll"} => Writer.hand = 0
         /\ Closer.pc \in {"off", "flush", "join", "last", "closed"} => Closer.hand = 0
         /\ ~ready => Writer.pc = "off"
         /\ offered = counts.written + counts.dropped + missed + queue + Writer.hand + Closer.hand
  BY LogCaptureAssumption
     DEF LogCaptureInv, LogCaptureTypeOK, HandsAreEmpty, RecordsAddUp, Writer, Closer, Thread,
         WriterPCs, CloserPCs

\* One thread is replaced, the other is kept.
LEMMA OneThreadMoves ==
  ASSUME LogCaptureInv, NEW x
  PROVE  /\ [threads EXCEPT !["writer"] = x] = [writer |-> x, closer |-> Closer]
         /\ [threads EXCEPT !["closer"] = x] = [writer |-> Writer, closer |-> x]
         /\ threads["writer"] = Writer /\ threads["closer"] = Closer
  <1>1. PICK v, u : threads = [writer |-> v, closer |-> u]
    BY DEF LogCaptureInv, LogCaptureTypeOK
  <1>2. Writer = v /\ Closer = u /\ threads["writer"] = v /\ threads["closer"] = u
    BY <1>1 DEF Writer, Closer
  <1>3. [threads EXCEPT !["writer"] = x] = [writer |-> x, closer |-> u]
    BY <1>1
  <1>4. [threads EXCEPT !["closer"] = x] = [writer |-> v, closer |-> x]
    BY <1>1
  <1> QED
    BY <1>2, <1>3, <1>4

\* A step that moves records between the queue, a batch and the counters: the
\* rest of the invariant follows from what it does to the two threads.
LEMMA AccountingKeeps ==
  ASSUME LogCaptureInv,
         NEW w \in Thread(WriterPCs), NEW c \in Thread(CloserPCs),
         threads' = [writer |-> w, closer |-> c],
         w.pc \in {"off", "take", "poll"} => w.hand = 0,
         c.pc \in {"off", "flush", "join", "last", "closed"} => c.hand = 0,
         ~ready' => w.pc = "off",
         queue' \in 0 .. QueueSize, counts' \in [written : Nat, dropped : Nat],
         offered' \in 0 .. MaxRecords, missed' \in Int,
         ready' \in BOOLEAN, stopping' \in BOOLEAN, noTable' \in BOOLEAN,
         migrated' \in BOOLEAN, hurried' \in BOOLEAN, DOMAIN saved' \subseteq Loggers,
         offered' = counts'.written + counts'.dropped + missed' + queue' + w.hand + c.hand
  PROVE  LogCaptureInv'
  <1>1. Writer' = w /\ Closer' = c
    BY DEF Writer, Closer
  <1>2. LogCaptureTypeOK'
    BY DEF LogCaptureTypeOK, WriterPCs, CloserPCs
  <1>3. HandsAreEmpty' /\ RecordsAddUp'
    BY <1>1 DEF HandsAreEmpty, RecordsAddUp
  <1> QED
    BY <1>2, <1>3 DEF LogCaptureInv

\* A step that moves no record.
LEMMA QuietKeeps ==
  ASSUME LogCaptureInv,
         NEW w \in Thread(WriterPCs), NEW c \in Thread(CloserPCs),
         threads' = [writer |-> w, closer |-> c],
         w.hand = Writer.hand, c.hand = Closer.hand,
         w.pc \in {"off", "take", "poll"} => w.hand = 0,
         c.pc \in {"off", "flush", "join", "last", "closed"} => c.hand = 0,
         ~ready' => w.pc = "off",
         UNCHANGED <<queue, counts, offered, missed>>,
         ready' \in BOOLEAN, stopping' \in BOOLEAN, noTable' \in BOOLEAN,
         migrated' \in BOOLEAN, hurried' \in BOOLEAN, DOMAIN saved' \subseteq Loggers
  PROVE  LogCaptureInv'
  <1>1. offered' = counts'.written + counts'.dropped + missed' + queue' + w.hand + c.hand
    BY Parts
  <1>2. /\ queue' \in 0 .. QueueSize /\ counts' \in [written : Nat, dropped : Nat]
        /\ offered' \in 0 .. MaxRecords /\ missed' \in Int
    BY Parts
  <1> QED
    BY <1>1, <1>2, AccountingKeeps

\* A fresh instance of a thread's state.
LEMMA FreshThread ==
  ASSUME NEW pcs, NEW pc \in pcs, NEW n \in 0 .. BatchSize
  PROVE  /\ [Unused EXCEPT !.pc = pc, !.hand = n] \in Thread(pcs)
         /\ [Unused EXCEPT !.pc = pc, !.hand = n].pc = pc
         /\ [Unused EXCEPT !.pc = pc, !.hand = n].hand = n
         /\ [Unused EXCEPT !.pc = pc] \in Thread(pcs)
         /\ [Unused EXCEPT !.pc = pc].pc = pc /\ [Unused EXCEPT !.pc = pc].hand = 0
         /\ Unused.hand = 0 /\ Unused.pc = "off"
         /\ "off" \in pcs => Unused \in Thread(pcs)
  <1>1. 0 \in 0 .. BatchSize /\ 0 \in 0 .. 2
    BY LogCaptureAssumption
  <1> QED
    BY <1>1 DEF Unused, Thread

\* A thread goes to another place with what it has.
LEMMA ThreadAt ==
  ASSUME NEW pcs, NEW t \in Thread(pcs), NEW pc \in pcs
  PROVE  /\ [t EXCEPT !.pc = pc] \in Thread(pcs)
         /\ [t EXCEPT !.pc = pc].pc = pc /\ [t EXCEPT !.pc = pc].hand = t.hand
  BY DEF Thread

\* Threads start, poll and end with empty hands.
LEMMA StartsKeep ==
  ASSUME LogCaptureInv, AppsReady \/ WriterStops \/ SkipPoll \/ PollCapture \/ Shutdown \/ Join
  PROVE  LogCaptureInv'
  <1>0. 0 \in 0 .. BatchSize
    BY Parts
  <1>1. CASE AppsReady
    <2> DEFINE w == [Unused EXCEPT !.pc = "take"]
    <2>1. w \in Thread(WriterPCs) /\ w.pc = "take" /\ w.hand = 0
      BY <1>0, FreshThread DEF WriterPCs
    <2>2. threads' = [writer |-> w, closer |-> Closer] /\ Writer.hand = 0
      BY <1>1, Parts DEF AppsReady
    <2>3. ready' = TRUE /\ stopping' = FALSE /\ UNCHANGED <<queue, counts, noTable, migrated, saved, offered, missed, hurried>>
      BY <1>1 DEF AppsReady
    <2> HIDE DEF w
    <2> QED
      BY <2>1, <2>2, <2>3, Parts, QuietKeeps
  <1>2. CASE WriterStops
    <2>1. threads' = [writer |-> Unused, closer |-> Closer] /\ Writer.hand = 0
      BY <1>2, Parts DEF WriterStops
    <2>2. Unused \in Thread(WriterPCs) /\ Unused.pc = "off" /\ Unused.hand = 0
      BY <1>0, FreshThread DEF WriterPCs
    <2> QED
      BY <1>2, <2>1, <2>2, Parts, QuietKeeps DEF WriterStops
  <1>3. CASE SkipPoll \/ PollCapture
    <2> DEFINE w == [Writer EXCEPT !.pc = "take"]
    <2>1. Writer.pc = "poll" /\ w \in Thread(WriterPCs) /\ w.pc = "take" /\ w.hand = Writer.hand
      <3>1. Writer.pc = "poll" /\ Writer \in Thread(WriterPCs) /\ "take" \in WriterPCs
        BY <1>3, Parts DEF WriterPCs, SkipPoll, PollCapture
      <3> QED
        BY <3>1, ThreadAt
    <2>2. threads' = [writer |-> w, closer |-> Closer]
      BY <1>3, Parts DEF SkipPoll, PollCapture, Writer, Closer
    <2>3. DOMAIN saved' \subseteq Loggers
      BY <1>3, Parts, ZenonT(30) DEF SkipPoll, PollCapture, SavedWith
    <2>4. UNCHANGED <<ready, queue, stopping, counts, noTable, migrated, offered, missed, hurried>>
      BY <1>3 DEF SkipPoll, PollCapture
    <2> HIDE DEF w
    <2> QED
      BY <2>1, <2>2, <2>3, <2>4, Parts, QuietKeeps
  <1>4. CASE Shutdown \/ Join
    <2> DEFINE c == [Closer EXCEPT !.pc = IF Closer.pc = "off" THEN "flush" ELSE "last"]
    <2>1. /\ Closer.pc \in {"off", "join"} /\ c \in Thread(CloserPCs)
          /\ c.pc \in {"flush", "last"} /\ c.hand = Closer.hand
      BY <1>4, Parts, ThreadAt DEF CloserPCs, Shutdown, Join
    <2>2. threads' = [writer |-> Writer, closer |-> c]
      BY <1>4, Parts DEF Shutdown, Join, Writer, Closer
    <2>3. /\ UNCHANGED <<ready, queue, stopping, counts, noTable, migrated, saved, offered, missed>>
          /\ hurried' \in BOOLEAN
      BY <1>4, Parts DEF Shutdown, Join
    <2> HIDE DEF c
    <2> QED
      BY <2>1, <2>2, <2>3, Parts, QuietKeeps
  <1> QED
    BY <1>1, <1>2, <1>3, <1>4

\* emit puts the record on the queue or counts it as dropped.
LEMMA EmitKeeps ==
  ASSUME LogCaptureInv, NEW l, Emit(l)
  PROVE  LogCaptureInv'
  <1> DEFINE started == [Unused EXCEPT !.pc = "take"]
             w == IF Writer.pc = "off" /\ ready THEN started ELSE Writer
  <1>1. /\ started \in Thread(WriterPCs) /\ started.pc = "take" /\ started.hand = 0
    <2>1. 0 \in 0 .. BatchSize
      BY Parts
    <2> QED
      BY <2>1, FreshThread DEF WriterPCs
  <1>2. threads' = [writer |-> w, closer |-> Closer]
    BY Parts DEF Emit, Ensured
  <1> HIDE DEF started
  <1>3. /\ w \in Thread(WriterPCs) /\ w.hand = Writer.hand
        /\ (w.pc \in {"off", "take", "poll"} => w.hand = 0) /\ (~ready => w.pc = "off")
    BY <1>1, Parts
  <1>4. /\ UNCHANGED <<ready, noTable, migrated, saved, missed, hurried>> /\ stopping' \in BOOLEAN
        /\ offered' = offered + 1 /\ offered < MaxRecords
    BY Parts DEF Emit
  <1>5. \/ queue < QueueSize /\ queue' = queue + 1 /\ counts' = counts
        \/ /\ counts' = [counts EXCEPT !.dropped = counts.dropped + 1] /\ queue' = queue
    BY DEF Emit
  <1>6. /\ queue' \in 0 .. QueueSize /\ counts' \in [written : Nat, dropped : Nat]
        /\ counts'.written + counts'.dropped + queue' = counts.written + counts.dropped + queue + 1
    BY <1>5, Parts
  <1>7. /\ offered' \in 0 .. MaxRecords
        /\ counts'.written \in Nat /\ counts'.dropped \in Nat /\ queue' \in Nat
    BY <1>4, <1>6, Parts
  <1> HIDE DEF w
  <1>8. offered' = counts'.written + counts'.dropped + missed' + queue' + w.hand + Closer.hand
    BY <1>3, <1>4, <1>6, <1>7, Parts
  <1> QED
    BY <1>2, <1>3, <1>4, <1>6, <1>7, <1>8, Parts, AccountingKeeps

\* A batch of the queue, for either thread.
LEMMA BatchIsTaken ==
  ASSUME LogCaptureInv
  PROVE  /\ Taken \in 0 .. BatchSize /\ queue - Taken \in 0 .. QueueSize
         /\ queue = 0 => Taken = 0
  BY Parts DEF Taken

\* A batch goes from the queue to the writer's hand.
LEMMA TakeBatchKeeps ==
  ASSUME LogCaptureInv, TakeBatch
  PROVE  LogCaptureInv'
  <1>0. /\ Writer.pc = "take" /\ Writer.hand = 0 /\ queue' = queue - Taken
        /\ UNCHANGED <<ready, stopping, counts, noTable, migrated, saved, offered, missed, hurried>>
    BY Parts DEF TakeBatch
  <1>1. PICK w \in Thread(WriterPCs) :
            /\ threads' = [writer |-> w, closer |-> Closer] /\ w.hand = Taken
            /\ w.pc = IF queue = 0 THEN "poll" ELSE "write"
    <2>1. CASE queue = 0
      <3> DEFINE w == [Writer EXCEPT !.pc = "poll"]
      <3>1. Writer \in Thread(WriterPCs) /\ "poll" \in WriterPCs
        BY Parts DEF WriterPCs
      <3>2. w \in Thread(WriterPCs) /\ w.pc = "poll" /\ w.hand = 0
        BY <1>0, <3>1, ThreadAt
      <3>3. threads' = [writer |-> w, closer |-> Closer]
        BY <2>1, Parts DEF TakeBatch, Writer, Closer
      <3> QED
        BY <2>1, <3>2, <3>3, BatchIsTaken
    <2>2. CASE queue # 0
      <3> DEFINE w == [Unused EXCEPT !.pc = "write", !.hand = Taken]
      <3>1. w \in Thread(WriterPCs) /\ w.pc = "write" /\ w.hand = Taken
        <4>1. "write" \in WriterPCs
          BY DEF WriterPCs
        <4> QED
          BY <4>1, BatchIsTaken, FreshThread, ZenonT(30)
      <3>2. threads' = [writer |-> w, closer |-> Closer]
        BY <2>2, Parts DEF TakeBatch, Hold
      <3> QED
        BY <2>2, <3>1, <3>2
    <2> QED
      BY <2>1, <2>2
  <1>2. queue' \in 0 .. QueueSize /\ w.pc # "off" /\ (w.pc \in {"take", "poll"} => w.hand = 0)
    BY <1>0, <1>1, BatchIsTaken
  <1>3. offered' = counts'.written + counts'.dropped + missed' + queue' + w.hand + Closer.hand
    BY <1>0, <1>1, BatchIsTaken, Parts
  <1>4. Closer.pc \in {"off", "flush", "join", "last", "closed"} => Closer.hand = 0
    BY Parts
  <1>5. ready
    BY <1>0, Parts
  <1> QED
    BY <1>0, <1>1, <1>2, <1>3, <1>4, <1>5, Parts, AccountingKeeps

\* What is left on the queue goes to the hand of the thread that closes.
LEMMA FlushKeeps ==
  ASSUME LogCaptureInv, Flush
  PROVE  LogCaptureInv'
  <1>0. /\ Closer.pc \in {"flush", "last"} /\ Closer.hand = 0
        /\ UNCHANGED <<ready, counts, noTable, migrated, saved, offered, missed>>
    BY Parts DEF Flush
  <1>1. CASE queue > 0 /\ Hold("closer", Taken) /\ queue' = queue - Taken /\ UNCHANGED <<stopping, hurried>>
    <2> DEFINE c == [Unused EXCEPT !.pc = "write", !.hand = Taken]
    <2>1. c \in Thread(CloserPCs) /\ c.pc = "write" /\ c.hand = Taken
      <3>1. "write" \in CloserPCs
        BY DEF CloserPCs
      <3> QED
        BY <3>1, BatchIsTaken, FreshThread, ZenonT(30)
    <2>2. threads' = [writer |-> Writer, closer |-> c]
      BY <1>1, OneThreadMoves DEF Hold
    <2> HIDE DEF c
    <2>3. offered' = counts'.written + counts'.dropped + missed' + queue' + Writer.hand + c.hand
      BY <1>0, <1>1, <2>1, BatchIsTaken, Parts
    <2>4. queue' \in 0 .. QueueSize
      BY <1>1, BatchIsTaken
    <2> QED
      BY <1>0, <1>1, <2>1, <2>2, <2>3, <2>4, Parts, AccountingKeeps
  <1>2. CASE ~(queue > 0 /\ Hold("closer", Taken) /\ queue' = queue - Taken /\ UNCHANGED <<stopping, hurried>>)
    <2> DEFINE c == [Closer EXCEPT !.pc = IF Closer.pc = "flush" THEN "join" ELSE "closed"]
    <2>1. c \in Thread(CloserPCs) /\ c.pc \in {"join", "closed"} /\ c.hand = Closer.hand
      <3>1. Closer \in Thread(CloserPCs) /\ "join" \in CloserPCs /\ "closed" \in CloserPCs
        BY Parts DEF CloserPCs
      <3> QED
        BY <3>1, ThreadAt
    <2>2. /\ threads' = [writer |-> Writer, closer |-> c] /\ queue' = queue
          /\ stopping' = (stopping \/ Closer.pc = "flush") /\ hurried' = (hurried \/ queue > 0)
      BY <1>2, Parts DEF Flush, Writer, Closer
    <2>3. stopping' \in BOOLEAN /\ hurried' \in BOOLEAN
      BY <2>2
    <2> HIDE DEF c
    <2> QED
      BY <1>0, <2>1, <2>2, <2>3, Parts, QuietKeeps
  <1> QED
    BY <1>1, <1>2

\* The write succeeds, is tried again, or is given up: the batch stays in hand.
LEMMA WriteKeeps ==
  ASSUME LogCaptureInv, NEW t \in {"writer", "closer"},
         WriteRows(t) \/ WriteFails(t) \/ WriteHasNoTable(t)
  PROVE  LogCaptureInv'
  <1>0. /\ threads[t].pc = "write" /\ noTable' \in BOOLEAN
        /\ UNCHANGED <<ready, queue, stopping, counts, migrated, saved, offered, missed, hurried>>
    BY Parts DEF WriteRows, WriteFails, WriteHasNoTable
  <1>1. PICK counter \in {"written", "dropped"} :
            \/ threads' = [threads EXCEPT ![t].pc = counter, ![t].base = counts[counter]]
            \/ threads[t].attempt < 2 /\ threads' = [threads EXCEPT ![t].attempt = threads[t].attempt + 1]
    BY DEF WriteRows, WriteFails, WriteHasNoTable, StartCount
  <1>2. counts[counter] \in Nat
    BY <1>1, Parts
  <1>3. ready' = ready /\ (~ready => Writer.pc = "off")
    BY <1>0, Parts
  <1>4. CASE t = "writer"
    <2>1. PICK w \in Thread(WriterPCs) :
              /\ threads' = [writer |-> w, closer |-> Closer] /\ w.hand = Writer.hand
              /\ w.pc \in {"write", "written", "dropped"}
      <3> DEFINE w1 == [Writer EXCEPT !.pc = counter, !.base = counts[counter]]
                 w2 == [Writer EXCEPT !.attempt = Writer.attempt + 1]
      <3>1. Writer.pc = "write" /\ Writer \in Thread(WriterPCs)
        BY <1>0, <1>4, Parts DEF Writer
      <3>2. /\ w1 \in Thread(WriterPCs) /\ w1.hand = Writer.hand /\ w1.pc = counter
            /\ Writer.attempt < 2 => w2 \in Thread(WriterPCs)
            /\ w2.hand = Writer.hand /\ w2.pc = "write"
        <4>1. counter \in WriterPCs /\ Writer.attempt \in 0 .. 2
          BY <1>1, <3>1 DEF Thread, WriterPCs
        <4>2. Writer.attempt < 2 => Writer.attempt + 1 \in 0 .. 2
          BY <4>1
        <4> QED
          BY <1>2, <3>1, <4>1, <4>2 DEF Thread
      <3>3. \/ threads' = [writer |-> w1, closer |-> Closer]
            \/ threads' = [writer |-> w2, closer |-> Closer] /\ Writer.attempt < 2
        BY <1>1, <1>4, Parts DEF Writer, Closer
      <3> HIDE DEF w1, w2
      <3> QED
        BY <1>1, <3>2, <3>3
    <2> QED
      BY <1>0, <1>3, <2>1, <1>4, Parts, QuietKeeps DEF Writer
  <1>5. CASE t = "closer"
    <2>1. PICK c \in Thread(CloserPCs) :
              /\ threads' = [writer |-> Writer, closer |-> c] /\ c.hand = Closer.hand
              /\ c.pc \in {"write", "written", "dropped"}
      <3> DEFINE c1 == [Closer EXCEPT !.pc = counter, !.base = counts[counter]]
                 c2 == [Closer EXCEPT !.attempt = Closer.attempt + 1]
      <3>1. Closer.pc = "write" /\ Closer \in Thread(CloserPCs)
        BY <1>0, <1>5, Parts DEF Closer
      <3>2. /\ c1 \in Thread(CloserPCs) /\ c1.hand = Closer.hand /\ c1.pc = counter
            /\ Closer.attempt < 2 => c2 \in Thread(CloserPCs)
            /\ c2.hand = Closer.hand /\ c2.pc = "write"
        <4>1. counter \in CloserPCs /\ Closer.attempt \in 0 .. 2
          BY <1>1, <3>1 DEF Thread, CloserPCs
        <4>2. Closer.attempt < 2 => Closer.attempt + 1 \in 0 .. 2
          BY <4>1
        <4> QED
          BY <1>2, <3>1, <4>1, <4>2 DEF Thread
      <3>3. \/ threads' = [writer |-> Writer, closer |-> c1]
            \/ threads' = [writer |-> Writer, closer |-> c2] /\ Closer.attempt < 2
        BY <1>1, <1>5, Parts DEF Writer, Closer
      <3> HIDE DEF c1, c2
      <3> QED
        BY <1>1, <3>2, <3>3
    <2> QED
      BY <1>0, <1>3, <2>1, Parts, QuietKeeps
  <1> QED
    BY <1>4, <1>5

\* The sum is stored: the batch is counted, and what another thread has added
\* to the counter since it was loaded is missed.
LEMMA StoreCountKeeps ==
  ASSUME LogCaptureInv, NEW t \in {"writer", "closer"}, StoreCount(t)
  PROVE  LogCaptureInv'
  <1> DEFINE counter == threads[t].pc
             base == threads[t].base
             hand == threads[t].hand
  <1>0. /\ counter \in {"written", "dropped"}
        /\ counts' = [counts EXCEPT ![counter] = base + hand]
        /\ missed' = missed + (counts[counter] - base)
        /\ threads' = [threads EXCEPT ![t] = [Unused EXCEPT !.pc = After(t)]]
        /\ UNCHANGED <<ready, queue, stopping, noTable, migrated, saved, offered, hurried>>
    BY DEF StoreCount, Done
  <1>1. base \in Nat /\ hand \in 0 .. BatchSize /\ hand \in Nat
    BY Parts DEF Thread, Writer, Closer
  <1> HIDE DEF base, hand, counter
  <1>2. /\ counts' \in [written : Nat, dropped : Nat] /\ missed' \in Int
        /\ counts'.written \in Nat /\ counts'.dropped \in Nat
        /\ counts'.written + counts'.dropped + missed' = counts.written + counts.dropped + missed + hand
    BY <1>0, <1>1, Parts
  <1>3. 0 \in 0 .. BatchSize
    BY Parts
  <1>4. CASE t = "writer"
    <2> DEFINE w == [Unused EXCEPT !.pc = "poll"]
    <2>1. w \in Thread(WriterPCs) /\ w.pc = "poll" /\ w.hand = 0
      BY <1>3, FreshThread DEF WriterPCs
    <2>2. threads' = [writer |-> w, closer |-> Closer] /\ hand = Writer.hand
      BY <1>0, <1>4, OneThreadMoves DEF After, hand
    <2>3. ready
      BY <1>0, <1>4, Parts DEF counter, Writer
    <2> HIDE DEF w
    <2>4. offered' = counts'.written + counts'.dropped + missed' + queue' + w.hand + Closer.hand
      BY <1>0, <1>2, <2>1, <2>2, Parts
    <2> QED
      BY <1>0, <1>2, <2>1, <2>2, <2>3, <2>4, Parts, AccountingKeeps
  <1>5. CASE t = "closer"
    <2> DEFINE c == [Unused EXCEPT !.pc = After(t)]
    <2>1. c \in Thread(CloserPCs) /\ c.pc \in {"flush", "last"} /\ c.hand = 0
      <3>1. After(t) \in {"flush", "last"}
        BY <1>5 DEF After
      <3> QED
        BY <1>3, <3>1, FreshThread DEF CloserPCs
    <2>2. threads' = [writer |-> Writer, closer |-> c] /\ hand = Closer.hand
      BY <1>0, <1>5, OneThreadMoves DEF hand
    <2> HIDE DEF c
    <2>3. offered' = counts'.written + counts'.dropped + missed' + queue' + Writer.hand + c.hand
      BY <1>0, <1>2, <2>1, <2>2, Parts
    <2> QED
      BY <1>0, <1>2, <2>1, <2>2, <2>3, Parts, AccountingKeeps
  <1> QED
    BY <1>4, <1>5

\* Every step keeps the invariant.
LEMMA LogCapturePreserved == LogCaptureInv /\ [LogCaptureNext]_logVars => LogCaptureInv'
  <1> SUFFICES ASSUME LogCaptureInv, [LogCaptureNext]_logVars PROVE LogCaptureInv'
    OBVIOUS
  <1>1. ASSUME UNCHANGED <<ready, queue, threads, stopping, counts, saved, offered, missed, hurried>>,
               noTable' \in BOOLEAN, migrated' \in BOOLEAN
        PROVE  LogCaptureInv'
    BY <1>1, Parts, QuietKeeps
  <1>2. CASE Migrate \/ NoTableEnds \/ StopCapture \/ UNCHANGED logVars
    BY <1>1, <1>2, Parts DEF Migrate, NoTableEnds, StopCapture, logVars
  <1>3. ASSUME NEW l \in RecordLevels, StartCapture(l) PROVE LogCaptureInv'
    BY <1>1, <1>3, Parts DEF StartCapture
  <1>4. ASSUME NEW w \in open, WindowExpires(w) PROVE LogCaptureInv'
    BY <1>1, <1>4, Parts DEF WindowExpires
  <1>5. CASE WriterStep
    BY <1>5, StartsKeep, TakeBatchKeeps, WriteKeeps, StoreCountKeeps DEF WriterStep
  <1>6. CASE CloserStep
    BY <1>6, StartsKeep, FlushKeeps, WriteKeeps, StoreCountKeeps DEF CloserStep
  <1> QED
    BY <1>2, <1>3, <1>4, <1>5, <1>6, StartsKeep, EmitKeeps DEF LogCaptureNext

\* The invariant of the capture handler (telemetry/handlers.py): records are on
\* the queue, in a hand or counted, and hands are empty outside a write.
THEOREM LogCaptureInvariant == LogCaptureSpec => []LogCaptureInv
  BY LogCaptureInitially, LogCapturePreserved, PTL DEF LogCaptureSpec

\* RecordsAddUp, for any sizes: a record that emit accepted is on the queue, in
\* a batch, or counted by _write as written or dropped; the unlocked sums of
\* two threads lose exactly what each wrote over.
THEOREM RecordsAlwaysAddUp == LogCaptureSpec => []RecordsAddUp
  <1>1. LogCaptureInv => RecordsAddUp
    BY DEF LogCaptureInv
  <1> QED
    BY <1>1, LogCaptureInvariant, PTL

-----------------------------------------------------------------------------
\* A primary key is handed out to one filing call, before the row exists.
FilingIsFresh ==
    /\ \A c \in Callers : calls[c].pc = "save" => Status(calls[c].req) = "none"
    /\ \A c, d \in Callers :
           calls[c].pc = "save" /\ calls[d].pc = "save" /\ c # d
               => calls[c].req # calls[d].req

\* What a call may still write is an outcome.
VerdictsAreOutcomes ==
    \A c \in Callers : calls[c].pc \in {"judge", "claim"} => calls[c].verdict \in Outcomes

\* The winner of a claim holds the outcome that stands, alone, until it has
\* run the callback.
WinnerIsAlone ==
    /\ \A c \in Callers :
           calls[c].pc = "callback" =>
               /\ calls[c].seen \in Outcomes
               /\ Status(calls[c].req) = calls[c].seen
               /\ effects[calls[c].req] = <<>>
    /\ \A c, d \in Callers :
           calls[c].pc = "callback" /\ calls[d].pc = "callback" /\ c # d
               => calls[c].req # calls[d].req

\* A call that announces still holds the outcome that stands.
AnnouncesWhatStands ==
    \A c \in Callers :
        calls[c].pc = "announce" =>
            calls[c].seen \in Outcomes /\ Status(calls[c].req) = calls[c].seen

NoEarlyEffect ==
    \A r \in Requests : Status(r) \in {"none", "pending"} => effects[r] = <<>>

ApprovalsInv ==
    /\ ApprovalsTypeOK
    /\ FilingIsFresh
    /\ VerdictsAreOutcomes
    /\ WinnerIsAlone
    /\ AnnouncesWhatStands
    /\ NoEarlyEffect
    /\ EffectLostOnlyByCrash

\* The idle call.
LEMMA IdleIsCall == Idle \in Call /\ Idle.pc = "idle" /\ Idle.todo = {}
BY ApprovalsAssumption DEF Idle, Call, Phases, Statuses, Outcomes

\* The row that is not there.
LEMMA NoRowIsRow == NoRow \in Row
BY DEF NoRow, Row, Statuses, Outcomes

USE IdleIsCall, NoRowIsRow

\* The initial states satisfy the invariant.
LEMMA InitEstablishesInv == ApprovalsInit => ApprovalsInv
<1> SUFFICES ASSUME ApprovalsInit PROVE ApprovalsInv
    OBVIOUS
<1> USE DEF ApprovalsInit
<1>1. ApprovalsTypeOK
    BY DEF ApprovalsTypeOK
<1>2. FilingIsFresh /\ VerdictsAreOutcomes /\ WinnerIsAlone /\ AnnouncesWhatStands
    BY DEF FilingIsFresh, VerdictsAreOutcomes, WinnerIsAlone, AnnouncesWhatStands
<1>3. NoEarlyEffect /\ EffectLostOnlyByCrash
    BY DEF NoEarlyEffect, EffectLostOnlyByCrash, Status, NoRow, Outcomes
<1> QED
    BY <1>1, <1>2, <1>3 DEF ApprovalsInv

\* request_approval only validates: nothing is written yet.
LEMMA RequestApprovalKeeps ==
    ASSUME ApprovalsInv, NEW c \in Callers, NEW u \in Users, NEW r \in Requests, NEW named \in Routings, RequestApproval(c, u, r, named)
    PROVE  ApprovalsInv'
<1> USE DEF ApprovalsInv, RequestApproval, Status, WhilePending, Return
<1>1. ApprovalsTypeOK'
    <2>1. calls' \in [Callers -> Call]
        <3> DEFINE new == [Idle EXCEPT !.pc = "save", !.req = r, !.user = u,
                                       !.named = named]
        <3>1. named \in SUBSET Users
            BY ApprovalsAssumption
        <3>2. new \in Call
            BY <3>1 DEF Call, Phases
        <3>3. calls \in [Callers -> Call] /\ calls' = [calls EXCEPT ![c] = new]
            BY DEF ApprovalsTypeOK
        <3> HIDE DEF new
        <3> QED
            BY <3>2, <3>3
    <2> QED
        BY <2>1 DEF ApprovalsTypeOK
<1>2. FilingIsFresh'
    BY DEF ApprovalsTypeOK, Call, Row, FilingIsFresh, Outcomes
<1>3. VerdictsAreOutcomes'
    BY DEF ApprovalsTypeOK, Call, Row, VerdictsAreOutcomes, Outcomes
<1>4. WinnerIsAlone' /\ AnnouncesWhatStands'
    BY DEF ApprovalsTypeOK, Call, Row, WinnerIsAlone, AnnouncesWhatStands, VerdictsAreOutcomes, FilingIsFresh, NoEarlyEffect, Outcomes
<1>5. NoEarlyEffect'
    BY DEF ApprovalsTypeOK, Call, Row, NoEarlyEffect, WinnerIsAlone, AnnouncesWhatStands, VerdictsAreOutcomes, FilingIsFresh, Outcomes
<1>6. EffectLostOnlyByCrash'
    BY DEF ApprovalsTypeOK, Call, Row, EffectLostOnlyByCrash, WinnerIsAlone, AnnouncesWhatStands, VerdictsAreOutcomes, Outcomes
<1> QED
    BY <1>1, <1>2, <1>3, <1>4, <1>5, <1>6

\* A new request is pending, and no other call knows it.
LEMMA SaveRequestKeeps ==
    ASSUME ApprovalsInv, NEW c \in Callers, SaveRequest(c)
    PROVE  ApprovalsInv'
<1> USE DEF ApprovalsInv, SaveRequest, Status, WhilePending, Return
<1>1. ApprovalsTypeOK'
    <2>0. calls[c] \in Call /\ calls[c].req \in Requests /\ calls[c].user \in Users \cup {NoUser}
        BY DEF ApprovalsTypeOK, Call
    <2>1. requests' \in [Requests -> Row]
        <3> DEFINE row == [NoRow EXCEPT !.status = "pending", !.requestedBy = calls[c].user]
        <3>1. row \in Row
            BY <2>0 DEF Row, NoRow, Statuses
        <3>2. requests \in [Requests -> Row] /\ requests' = [requests EXCEPT ![calls[c].req] = row]
            BY DEF ApprovalsTypeOK
        <3> HIDE DEF row
        <3> QED
            BY <3>1, <3>2
    <2>2. calls' \in [Callers -> Call]
        <3> DEFINE new == [calls[c] EXCEPT !.pc = IF calls[c].named # {} THEN "assign" ELSE "ring"]
        <3>1. new \in Call
            BY <2>0 DEF Call, Phases
        <3>2. calls \in [Callers -> Call] /\ calls' = [calls EXCEPT ![c] = new]
            BY DEF ApprovalsTypeOK
        <3> HIDE DEF new
        <3> QED
            BY <3>1, <3>2
    <2> QED
        BY <2>1, <2>2 DEF ApprovalsTypeOK
<1>2. FilingIsFresh'
    BY DEF ApprovalsTypeOK, Call, Row, FilingIsFresh, Outcomes
<1>3. VerdictsAreOutcomes'
    BY DEF ApprovalsTypeOK, Call, Row, VerdictsAreOutcomes, Outcomes
<1>4. WinnerIsAlone' /\ AnnouncesWhatStands'
    BY DEF ApprovalsTypeOK, Call, Row, WinnerIsAlone, AnnouncesWhatStands, VerdictsAreOutcomes, FilingIsFresh, NoEarlyEffect, Outcomes
<1>5. NoEarlyEffect'
    BY DEF ApprovalsTypeOK, Call, Row, NoEarlyEffect, WinnerIsAlone, AnnouncesWhatStands, VerdictsAreOutcomes, FilingIsFresh, Outcomes
<1>6. EffectLostOnlyByCrash'
    BY DEF ApprovalsTypeOK, Call, Row, EffectLostOnlyByCrash, WinnerIsAlone, AnnouncesWhatStands, VerdictsAreOutcomes, Outcomes
<1> QED
    BY <1>1, <1>2, <1>3, <1>4, <1>5, <1>6

\* Naming the approvers changes no status.
LEMMA SetAssigneesKeeps ==
    ASSUME ApprovalsInv, NEW c \in Callers, SetAssignees(c)
    PROVE  ApprovalsInv'
<1> USE DEF ApprovalsInv, SetAssignees, Status
<1>1. ApprovalsTypeOK'
    <2>1. requests' \in [Requests -> Row]
        <3> DEFINE row == [requests[calls[c].req] EXCEPT !.assignees = calls[c].named]
        <3>1. calls[c].named \in SUBSET Users /\ calls[c].req \in Requests
            BY DEF ApprovalsTypeOK, Call
        <3>2. row \in Row
            BY <3>1 DEF ApprovalsTypeOK, Row
        <3> QED
            BY <3>1, <3>2 DEF ApprovalsTypeOK
    <2>2. calls' \in [Callers -> Call]
        <3> DEFINE new == [calls[c] EXCEPT !.pc = "ring"]
        <3>1. calls[c] \in Call
            BY DEF ApprovalsTypeOK
        <3>2. new \in Call
            BY <3>1 DEF Call, Phases, Statuses, Outcomes
        <3> QED
            BY <3>2 DEF ApprovalsTypeOK
    <2> QED
        BY <2>1, <2>2 DEF ApprovalsTypeOK
<1>2. FilingIsFresh'
    BY DEF ApprovalsTypeOK, Call, Row, FilingIsFresh, Outcomes
<1>3. VerdictsAreOutcomes'
    BY DEF ApprovalsTypeOK, Call, VerdictsAreOutcomes, Outcomes
<1>4. WinnerIsAlone' /\ AnnouncesWhatStands'
    BY DEF ApprovalsTypeOK, Call, Row, WinnerIsAlone, AnnouncesWhatStands, Outcomes
<1>5. NoEarlyEffect'
    BY DEF ApprovalsTypeOK, Call, Row, NoEarlyEffect
<1>6. EffectLostOnlyByCrash'
    BY DEF ApprovalsTypeOK, Call, Row, EffectLostOnlyByCrash, Outcomes
<1> QED
    BY <1>1, <1>2, <1>3, <1>4, <1>5, <1>6

\* Telling the approvers changes no status.
LEMMA NotifyOnRequestKeeps ==
    ASSUME ApprovalsInv, NEW c \in Callers, NotifyOnRequest(c)
    PROVE  ApprovalsInv'
<1> USE DEF ApprovalsInv, NotifyOnRequest, Status
<1>1. ApprovalsTypeOK'
    <2>1. requests' \in [Requests -> Row]
        BY DEF ApprovalsTypeOK
    <2>2. calls' \in [Callers -> Call]
        BY DEF ApprovalsTypeOK
    <2>3. bells' \subseteq Requests \X Users
        <3>1. calls[c].req \in Requests
            BY DEF ApprovalsTypeOK, Call
        <3>2. ApproverUsers(calls[c].req) \subseteq Users
            BY <3>1 DEF ApproverUsers, ApprovalsTypeOK, Row
        <3> HIDE DEF ApproverUsers
        <3> QED
            BY <3>1, <3>2 DEF ApprovalsTypeOK
    <2> QED
        BY <2>1, <2>2, <2>3 DEF ApprovalsTypeOK
<1>2. FilingIsFresh'
    BY DEF ApprovalsTypeOK, Call, Row, FilingIsFresh, Outcomes
<1>3. VerdictsAreOutcomes'
    BY DEF ApprovalsTypeOK, Call, VerdictsAreOutcomes, Outcomes
<1>4. WinnerIsAlone' /\ AnnouncesWhatStands'
    BY DEF ApprovalsTypeOK, Call, Row, WinnerIsAlone, AnnouncesWhatStands, Outcomes
<1>5. NoEarlyEffect'
    BY DEF ApprovalsTypeOK, Call, Row, NoEarlyEffect
<1>6. EffectLostOnlyByCrash'
    BY DEF ApprovalsTypeOK, Call, Row, EffectLostOnlyByCrash, Outcomes
<1> QED
    BY <1>1, <1>2, <1>3, <1>4, <1>5, <1>6

\* A decider reads the row it will judge by.
LEMMA LoadRequestKeeps ==
    ASSUME ApprovalsInv, NEW c \in Callers, NEW u \in Users, NEW r \in Requests, NEW v \in {"approved", "rejected", "canceled"}, LoadRequest(c, u, r, v)
    PROVE  ApprovalsInv'
<1> USE DEF ApprovalsInv, LoadRequest, Status
<1>1. ApprovalsTypeOK'
    <2>1. requests' \in [Requests -> Row]
        BY DEF ApprovalsTypeOK
    <2>2. calls' \in [Callers -> Call]
        <3> DEFINE new == [Idle EXCEPT !.pc = "judge", !.req = r, !.user = u,
                                         !.seen = Status(r), !.verdict = v]
        <3>1. calls[c] \in Call
            BY DEF ApprovalsTypeOK
        <3>3. Status(r) \in Statuses
            BY DEF ApprovalsTypeOK, Row
        <3>2. new \in Call
            BY <3>3 DEF Call, Idle, Phases, Statuses, Outcomes
        <3> QED
            BY <3>2 DEF ApprovalsTypeOK
    <2> QED
        BY <2>1, <2>2 DEF ApprovalsTypeOK
<1>2. FilingIsFresh'
    BY DEF ApprovalsTypeOK, Call, Row, FilingIsFresh, Outcomes
<1>3. VerdictsAreOutcomes'
    BY DEF ApprovalsTypeOK, Call, VerdictsAreOutcomes, Outcomes
<1>4. WinnerIsAlone' /\ AnnouncesWhatStands'
    BY DEF ApprovalsTypeOK, Call, Row, WinnerIsAlone, AnnouncesWhatStands, Outcomes
<1>5. NoEarlyEffect'
    BY DEF ApprovalsTypeOK, Call, Row, NoEarlyEffect
<1>6. EffectLostOnlyByCrash'
    BY DEF ApprovalsTypeOK, Call, Row, EffectLostOnlyByCrash, Outcomes
<1> QED
    BY <1>1, <1>2, <1>3, <1>4, <1>5, <1>6

\* A decider who finds the deadline passed tries to expire the request instead.
LEMMA ExpireInsteadKeeps ==
    ASSUME ApprovalsInv, NEW c \in Callers, ExpireInstead(c)
    PROVE  ApprovalsInv'
<1> USE DEF ApprovalsInv, ExpireInstead, Status
<1>1. ApprovalsTypeOK'
    <2>1. requests' \in [Requests -> Row]
        BY DEF ApprovalsTypeOK
    <2>2. calls' \in [Callers -> Call]
        <3> DEFINE new == [calls[c] EXCEPT !.pc = "claim", !.verdict = "expired",
                                             !.user = NoUser]
        <3>1. calls[c] \in Call
            BY DEF ApprovalsTypeOK
        <3>2. new \in Call
            BY <3>1 DEF Call, Phases, Statuses, Outcomes
        <3> QED
            BY <3>2 DEF ApprovalsTypeOK
    <2> QED
        BY <2>1, <2>2 DEF ApprovalsTypeOK
<1>2. FilingIsFresh'
    BY DEF ApprovalsTypeOK, Call, Row, FilingIsFresh, Outcomes
<1>3. VerdictsAreOutcomes'
    BY DEF ApprovalsTypeOK, Call, VerdictsAreOutcomes, Outcomes
<1>4. WinnerIsAlone' /\ AnnouncesWhatStands'
    BY DEF ApprovalsTypeOK, Call, Row, WinnerIsAlone, AnnouncesWhatStands, Outcomes
<1>5. NoEarlyEffect'
    BY DEF ApprovalsTypeOK, Call, Row, NoEarlyEffect
<1>6. EffectLostOnlyByCrash'
    BY DEF ApprovalsTypeOK, Call, Row, EffectLostOnlyByCrash, Outcomes
<1> QED
    BY <1>1, <1>2, <1>3, <1>4, <1>5, <1>6

\* The permission check changes no row.
LEMMA PermitKeeps ==
    ASSUME ApprovalsInv, NEW c \in Callers, Permit(c)
    PROVE  ApprovalsInv'
<1> USE DEF ApprovalsInv, Permit, Status
<1>1. ApprovalsTypeOK'
    <2>1. requests' \in [Requests -> Row]
        BY DEF ApprovalsTypeOK
    <2>2. calls' \in [Callers -> Call]
        <3> DEFINE new == [calls[c] EXCEPT !.pc = "claim"]
        <3>1. calls[c] \in Call
            BY DEF ApprovalsTypeOK
        <3>2. new \in Call
            BY <3>1 DEF Call, Phases, Statuses, Outcomes
        <3> QED
            BY <3>2 DEF ApprovalsTypeOK
    <2> QED
        BY <2>1, <2>2 DEF ApprovalsTypeOK
<1>2. FilingIsFresh'
    BY DEF ApprovalsTypeOK, Call, Row, FilingIsFresh, Outcomes
<1>3. VerdictsAreOutcomes'
    BY DEF ApprovalsTypeOK, Call, VerdictsAreOutcomes, Outcomes
<1>4. WinnerIsAlone' /\ AnnouncesWhatStands'
    BY DEF ApprovalsTypeOK, Call, Row, WinnerIsAlone, AnnouncesWhatStands, Outcomes
<1>5. NoEarlyEffect'
    BY DEF ApprovalsTypeOK, Call, Row, NoEarlyEffect
<1>6. EffectLostOnlyByCrash'
    BY DEF ApprovalsTypeOK, Call, Row, EffectLostOnlyByCrash, Outcomes
<1> QED
    BY <1>1, <1>2, <1>3, <1>4, <1>5, <1>6

\* Neither does a refusal.
LEMMA RefuseKeeps ==
    ASSUME ApprovalsInv, NEW c \in Callers, Refuse(c)
    PROVE  ApprovalsInv'
<1> USE DEF ApprovalsInv, Refuse, Status, WhilePending, Return
<1>1. ApprovalsTypeOK'
    BY ApprovalsAssumption DEF ApprovalsTypeOK, Call, Row, Phases, Statuses, VerdictsAreOutcomes, WinnerIsAlone, AnnouncesWhatStands
<1>2. FilingIsFresh'
    BY DEF ApprovalsTypeOK, Call, Row, FilingIsFresh, Outcomes
<1>3. VerdictsAreOutcomes'
    BY DEF ApprovalsTypeOK, Call, Row, VerdictsAreOutcomes, Outcomes
<1>4. WinnerIsAlone' /\ AnnouncesWhatStands'
    BY DEF ApprovalsTypeOK, Call, Row, WinnerIsAlone, AnnouncesWhatStands, VerdictsAreOutcomes, FilingIsFresh, NoEarlyEffect, Outcomes
<1>5. NoEarlyEffect'
    BY DEF ApprovalsTypeOK, Call, Row, NoEarlyEffect, WinnerIsAlone, AnnouncesWhatStands, VerdictsAreOutcomes, FilingIsFresh, Outcomes
<1>6. EffectLostOnlyByCrash'
    BY DEF ApprovalsTypeOK, Call, Row, EffectLostOnlyByCrash, WinnerIsAlone, AnnouncesWhatStands, VerdictsAreOutcomes, Outcomes
<1> QED
    BY <1>1, <1>2, <1>3, <1>4, <1>5, <1>6

\* The conditional UPDATE lets one decision win, and only while pending.
LEMMA ClaimKeeps ==
    ASSUME ApprovalsInv, NEW c \in Callers, Claim(c)
    PROVE  ApprovalsInv'
<1> USE DEF ApprovalsInv, Status
<1> DEFINE q == calls[c].req  o == calls[c].verdict
<1>1. /\ calls[c] \in Call /\ q \in Requests /\ o \in Outcomes /\ calls[c].pc = "claim"
      /\ calls[c].user \in Users \cup {NoUser}
      /\ UNCHANGED <<overdue, active, bells, effects, dropped, deaths>>
    BY DEF ApprovalsTypeOK, Call, VerdictsAreOutcomes, Claim
<1>2. CASE requests[q].status # "pending"
    <2>1. calls' = [calls EXCEPT ![c] = Idle] /\ UNCHANGED requests
        BY <1>2 DEF Claim, WhilePending
    <2>2. ApprovalsTypeOK'
        BY <1>1, <2>1 DEF ApprovalsTypeOK
    <2>3. FilingIsFresh' /\ VerdictsAreOutcomes' /\ WinnerIsAlone' /\ AnnouncesWhatStands'
        BY <1>1, <2>1 DEF ApprovalsTypeOK, FilingIsFresh, VerdictsAreOutcomes,
                          WinnerIsAlone, AnnouncesWhatStands
    <2>4. NoEarlyEffect' /\ EffectLostOnlyByCrash'
        BY <1>1, <2>1 DEF ApprovalsTypeOK, NoEarlyEffect, EffectLostOnlyByCrash
    <2> QED
        BY <2>2, <2>3, <2>4
<1>3. CASE requests[q].status = "pending"
    <2> DEFINE row == [requests[q] EXCEPT !.status = o, !.decidedBy = calls[c].user]
               new == [calls[c] EXCEPT !.pc = "callback", !.seen = o]
    <2>1. requests' = [requests EXCEPT ![q] = row] /\ calls' = [calls EXCEPT ![c] = new]
        BY <1>1, <1>3 DEF Claim, WhilePending, ApprovalsTypeOK, Row, Call
    <2>2. row \in Row /\ row.status = o
        BY <1>1 DEF ApprovalsTypeOK, Row, Statuses
    <2>3. new \in Call /\ new.pc = "callback" /\ new.seen = o /\ new.req = q
        BY <1>1 DEF Call, Phases, Statuses
    <2> HIDE DEF row, new, q, o
    <2>4. ApprovalsTypeOK'
        BY <1>1, <2>1, <2>2, <2>3 DEF ApprovalsTypeOK
    <2>5. FilingIsFresh' /\ VerdictsAreOutcomes'
        BY <1>1, <1>3, <2>1, <2>2, <2>3 DEF ApprovalsTypeOK, FilingIsFresh, VerdictsAreOutcomes
    <2>6. effects[q] = <<>>
        BY <1>1, <1>3 DEF NoEarlyEffect
    <2>7. \A d \in Callers : calls[d].pc \in {"callback", "announce"} => calls[d].req # q
        BY <1>1, <1>3 DEF WinnerIsAlone, AnnouncesWhatStands, Outcomes
    <2>8. WinnerIsAlone' /\ AnnouncesWhatStands'
        BY <1>1, <2>1, <2>2, <2>3, <2>6, <2>7
           DEF ApprovalsTypeOK, Call, WinnerIsAlone, AnnouncesWhatStands
    <2>9. NoEarlyEffect' /\ EffectLostOnlyByCrash'
        BY <1>1, <2>1, <2>2, <2>3, <2>6
           DEF ApprovalsTypeOK, NoEarlyEffect, EffectLostOnlyByCrash, Outcomes
    <2> QED
        BY <2>4, <2>5, <2>8, <2>9
<1> QED
    BY <1>2, <1>3

\* The winner runs the callback, once.
LEMMA RunCallbackKeeps ==
    ASSUME ApprovalsInv, NEW c \in Callers, RunCallback(c)
    PROVE  ApprovalsInv'
<1> USE DEF ApprovalsInv, Status
<1> DEFINE q == calls[c].req  o == calls[c].seen
           new == [calls[c] EXCEPT !.pc = "announce"]
<1>1. /\ calls[c] \in Call /\ q \in Requests /\ o \in Outcomes /\ calls[c].pc = "callback"
      /\ requests[q].status = o /\ effects[q] = <<>>
      /\ UNCHANGED <<overdue, active, bells, dropped, deaths>>
    BY DEF ApprovalsTypeOK, Call, WinnerIsAlone, RunCallback
<1>2. PICK raised \in BOOLEAN :
          requests' = [requests EXCEPT ![q].callbackError = raised]
    BY DEF RunCallback
<1> DEFINE row == [requests[q] EXCEPT !.callbackError = raised]
<1>3a. requests' = [requests EXCEPT ![q] = row] /\ calls' = [calls EXCEPT ![c] = new]
    BY <1>1, <1>2 DEF RunCallback, ApprovalsTypeOK, Row, Call
<1>3b. effects' = [effects EXCEPT ![q] = Append(effects[q], o)]
    BY <1>1 DEF RunCallback, ApprovalsTypeOK
<1>3c. Append(<<>>, o) = <<o>>
    OBVIOUS
<1>3. /\ requests' = [requests EXCEPT ![q] = row]
      /\ calls' = [calls EXCEPT ![c] = new]
      /\ effects' = [effects EXCEPT ![q] = <<o>>]
    BY <1>1, <1>3a, <1>3b, <1>3c
<1>4. row \in Row /\ row.status = o
    BY <1>1 DEF ApprovalsTypeOK, Row
<1>5. new \in Call /\ new.pc = "announce" /\ new.req = q /\ new.seen = o
    BY <1>1 DEF Call, Phases
<1>6. <<o>> \in Seq(Outcomes) /\ <<o>> # <<>>
    BY <1>1
<1> HIDE DEF row, new, q, o
<1>7. ApprovalsTypeOK'
    BY <1>1, <1>3, <1>4, <1>5, <1>6 DEF ApprovalsTypeOK
<1>8. FilingIsFresh' /\ VerdictsAreOutcomes'
    BY <1>1, <1>3, <1>4, <1>5 DEF ApprovalsTypeOK, FilingIsFresh, VerdictsAreOutcomes, Outcomes
<1>9. \A d \in Callers : d # c /\ calls[d].pc = "callback" => calls[d].req # q
    BY <1>1 DEF WinnerIsAlone, q
<1>10. WinnerIsAlone' /\ AnnouncesWhatStands'
    BY <1>1, <1>3, <1>4, <1>5, <1>9
       DEF ApprovalsTypeOK, Call, WinnerIsAlone, AnnouncesWhatStands
<1>11. NoEarlyEffect' /\ EffectLostOnlyByCrash'
    BY <1>1, <1>3, <1>4, <1>5, <1>6
       DEF ApprovalsTypeOK, NoEarlyEffect, EffectLostOnlyByCrash, Outcomes, q
<1> QED
    BY <1>7, <1>8, <1>10, <1>11

\* What is announced is what the row says.
LEMMA AnnounceKeeps ==
    ASSUME ApprovalsInv, NEW c \in Callers, Announce(c)
    PROVE  ApprovalsInv'
<1> USE DEF ApprovalsInv, Status
<1> DEFINE q == calls[c].req  new == Return(calls[c])
<1>1. /\ calls[c] \in Call /\ q \in Requests /\ calls[c].pc = "announce"
      /\ requests[q].status = calls[c].seen
      /\ UNCHANGED <<overdue, active, effects, dropped, deaths>>
    BY DEF ApprovalsTypeOK, Call, AnnouncesWhatStands, Announce
<1>2. UNCHANGED requests
    BY <1>1 DEF Announce, ApprovalsTypeOK, Row
<1>3. calls' = [calls EXCEPT ![c] = new] /\ bells' \subseteq bells
    BY DEF Announce
<1>4. new \in Call /\ new.pc \in {"sweep", "idle"}
    BY <1>1 DEF Return, Call, Phases
<1> HIDE DEF new
<1>5. ApprovalsTypeOK'
    BY <1>1, <1>2, <1>3, <1>4 DEF ApprovalsTypeOK
<1>6. FilingIsFresh' /\ VerdictsAreOutcomes' /\ WinnerIsAlone' /\ AnnouncesWhatStands'
    BY <1>1, <1>2, <1>3, <1>4
       DEF ApprovalsTypeOK, FilingIsFresh, VerdictsAreOutcomes, WinnerIsAlone, AnnouncesWhatStands
<1>7. NoEarlyEffect' /\ EffectLostOnlyByCrash'
    BY <1>1, <1>2, <1>3, <1>4 DEF ApprovalsTypeOK, NoEarlyEffect, EffectLostOnlyByCrash
<1> QED
    BY <1>5, <1>6, <1>7

\* mark_expired lists the overdue ids: the list decides nothing.
LEMMA MarkExpiredKeeps ==
    ASSUME ApprovalsInv, NEW c \in Callers, NEW todo \in SUBSET Requests, MarkExpired(c, todo)
    PROVE  ApprovalsInv'
<1> USE DEF ApprovalsInv, MarkExpired, Status, WhilePending, Return
<1>1. ApprovalsTypeOK'
    BY ApprovalsAssumption DEF ApprovalsTypeOK, Call, Row, Phases, Statuses, VerdictsAreOutcomes, WinnerIsAlone, AnnouncesWhatStands
<1>2. FilingIsFresh'
    BY DEF ApprovalsTypeOK, Call, Row, FilingIsFresh, Outcomes
<1>3. VerdictsAreOutcomes'
    BY DEF ApprovalsTypeOK, Call, Row, VerdictsAreOutcomes, Outcomes
<1>4. WinnerIsAlone' /\ AnnouncesWhatStands'
    BY DEF ApprovalsTypeOK, Call, Row, WinnerIsAlone, AnnouncesWhatStands, VerdictsAreOutcomes, FilingIsFresh, NoEarlyEffect, Outcomes
<1>5. NoEarlyEffect'
    BY DEF ApprovalsTypeOK, Call, Row, NoEarlyEffect, WinnerIsAlone, AnnouncesWhatStands, VerdictsAreOutcomes, FilingIsFresh, Outcomes
<1>6. EffectLostOnlyByCrash'
    BY DEF ApprovalsTypeOK, Call, Row, EffectLostOnlyByCrash, WinnerIsAlone, AnnouncesWhatStands, VerdictsAreOutcomes, Outcomes
<1> QED
    BY <1>1, <1>2, <1>3, <1>4, <1>5, <1>6

\* The sweep expires rows of its list by the same conditional UPDATE.
LEMMA SweepRowKeeps ==
    ASSUME ApprovalsInv, NEW c \in Callers, SweepRow(c)
    PROVE  ApprovalsInv'
<1> USE DEF ApprovalsInv, Status
<1>1. /\ calls[c] \in Call /\ calls[c].pc = "sweep"
      /\ UNCHANGED <<overdue, active, bells, effects, dropped, deaths>>
    BY DEF ApprovalsTypeOK, SweepRow
<1>2. PICK q \in calls[c].todo :
        LET rest == [calls[c] EXCEPT !.req = q, !.todo = @ \ {q}] IN
        IF requests[q].status = "pending"
        THEN /\ requests' = [requests EXCEPT ![q].status = "expired"]
             /\ calls' = [calls EXCEPT ![c] =
                    [rest EXCEPT !.pc = "callback", !.seen = "expired"]]
        ELSE /\ calls' = [calls EXCEPT ![c] = Return(rest)]
             /\ UNCHANGED requests
    BY DEF SweepRow, WhilePending
<1>3. q \in Requests
    BY <1>1 DEF Call
<1> DEFINE rest == [calls[c] EXCEPT !.req = q, !.todo = @ \ {q}]
<1>4. rest \in Call /\ rest.pc = "sweep" /\ rest.req = q
    BY <1>1, <1>3 DEF Call
<1>5. CASE requests[q].status # "pending"
    <2> DEFINE new == Return(rest)
    <2>1. calls' = [calls EXCEPT ![c] = new] /\ UNCHANGED requests
        BY <1>2, <1>5
    <2>2. new \in Call /\ new.pc \in {"sweep", "idle"}
        BY <1>4 DEF Return, Call, Phases
    <2> HIDE DEF new
    <2>3. ApprovalsTypeOK'
        BY <1>1, <2>1, <2>2 DEF ApprovalsTypeOK
    <2>4. FilingIsFresh' /\ VerdictsAreOutcomes' /\ WinnerIsAlone' /\ AnnouncesWhatStands'
        BY <1>1, <2>1, <2>2 DEF ApprovalsTypeOK, FilingIsFresh, VerdictsAreOutcomes,
                          WinnerIsAlone, AnnouncesWhatStands
    <2>5. NoEarlyEffect' /\ EffectLostOnlyByCrash'
        BY <1>1, <2>1, <2>2 DEF ApprovalsTypeOK, NoEarlyEffect, EffectLostOnlyByCrash
    <2> QED
        BY <2>3, <2>4, <2>5
<1>6. CASE requests[q].status = "pending"
    <2> DEFINE row == [requests[q] EXCEPT !.status = "expired"]
               new == [rest EXCEPT !.pc = "callback", !.seen = "expired"]
    <2>1. requests' = [requests EXCEPT ![q] = row] /\ calls' = [calls EXCEPT ![c] = new]
        BY <1>2, <1>3, <1>6 DEF ApprovalsTypeOK, Row
    <2>2. row \in Row /\ row.status = "expired"
        BY <1>3 DEF ApprovalsTypeOK, Row, Statuses, Outcomes
    <2>3. new \in Call /\ new.pc = "callback" /\ new.seen = "expired" /\ new.req = q
        BY <1>4 DEF Call, Phases, Statuses, Outcomes
    <2> HIDE DEF row, new, rest
    <2>4. ApprovalsTypeOK'
        BY <1>1, <2>1, <2>2, <2>3 DEF ApprovalsTypeOK
    <2>5. FilingIsFresh' /\ VerdictsAreOutcomes'
        BY <1>1, <1>3, <1>6, <2>1, <2>2, <2>3
           DEF ApprovalsTypeOK, FilingIsFresh, VerdictsAreOutcomes
    <2>6. effects[q] = <<>>
        BY <1>3, <1>6 DEF NoEarlyEffect
    <2>7. \A d \in Callers : calls[d].pc \in {"callback", "announce"} => calls[d].req # q
        BY <1>6 DEF WinnerIsAlone, AnnouncesWhatStands, Outcomes
    <2>8. WinnerIsAlone' /\ AnnouncesWhatStands'
        BY <1>1, <1>3, <2>1, <2>2, <2>3, <2>6, <2>7
           DEF ApprovalsTypeOK, Call, WinnerIsAlone, AnnouncesWhatStands, Outcomes
    <2>9. NoEarlyEffect' /\ EffectLostOnlyByCrash'
        BY <1>1, <1>3, <2>1, <2>2, <2>3, <2>6
           DEF ApprovalsTypeOK, NoEarlyEffect, EffectLostOnlyByCrash, Outcomes
    <2> QED
        BY <2>4, <2>5, <2>8, <2>9
<1> QED
    BY <1>5, <1>6

\* A process that dies takes only its own call with it.
LEMMA DieKeeps ==
    ASSUME ApprovalsInv, NEW c \in Callers, Die(c)
    PROVE  ApprovalsInv'
<1> USE DEF ApprovalsInv, Die, Status, WhilePending, Return
<1>1. ApprovalsTypeOK'
    BY ApprovalsAssumption DEF ApprovalsTypeOK, Call, Row, Phases, Statuses, VerdictsAreOutcomes, WinnerIsAlone, AnnouncesWhatStands
<1>2. FilingIsFresh'
    BY DEF ApprovalsTypeOK, Call, Row, FilingIsFresh, Outcomes
<1>3. VerdictsAreOutcomes'
    BY DEF ApprovalsTypeOK, Call, Row, VerdictsAreOutcomes, Outcomes
<1>4. WinnerIsAlone' /\ AnnouncesWhatStands'
    BY DEF ApprovalsTypeOK, Call, Row, WinnerIsAlone, AnnouncesWhatStands, VerdictsAreOutcomes, FilingIsFresh, NoEarlyEffect, Outcomes
<1>5. NoEarlyEffect'
    BY DEF ApprovalsTypeOK, Call, Row, NoEarlyEffect, WinnerIsAlone, AnnouncesWhatStands, VerdictsAreOutcomes, FilingIsFresh, Outcomes
<1>6. EffectLostOnlyByCrash'
    BY DEF ApprovalsTypeOK, Call, Row, EffectLostOnlyByCrash, WinnerIsAlone, AnnouncesWhatStands, VerdictsAreOutcomes, Outcomes
<1> QED
    BY <1>1, <1>2, <1>3, <1>4, <1>5, <1>6

\* Time decides nothing by itself.
LEMMA ClockPassesKeeps ==
    ASSUME ApprovalsInv, NEW r \in Requests, ClockPasses(r)
    PROVE  ApprovalsInv'
<1> USE DEF ApprovalsInv, ClockPasses, Status, WhilePending, Return
<1>1. ApprovalsTypeOK'
    BY ApprovalsAssumption DEF ApprovalsTypeOK, Call, Row, Phases, Statuses, VerdictsAreOutcomes, WinnerIsAlone, AnnouncesWhatStands
<1>2. FilingIsFresh'
    BY DEF ApprovalsTypeOK, Call, Row, FilingIsFresh, Outcomes
<1>3. VerdictsAreOutcomes'
    BY DEF ApprovalsTypeOK, Call, Row, VerdictsAreOutcomes, Outcomes
<1>4. WinnerIsAlone' /\ AnnouncesWhatStands'
    BY DEF ApprovalsTypeOK, Call, Row, WinnerIsAlone, AnnouncesWhatStands, VerdictsAreOutcomes, FilingIsFresh, NoEarlyEffect, Outcomes
<1>5. NoEarlyEffect'
    BY DEF ApprovalsTypeOK, Call, Row, NoEarlyEffect, WinnerIsAlone, AnnouncesWhatStands, VerdictsAreOutcomes, FilingIsFresh, Outcomes
<1>6. EffectLostOnlyByCrash'
    BY DEF ApprovalsTypeOK, Call, Row, EffectLostOnlyByCrash, WinnerIsAlone, AnnouncesWhatStands, VerdictsAreOutcomes, Outcomes
<1> QED
    BY <1>1, <1>2, <1>3, <1>4, <1>5, <1>6

\* Nor does a user who is deactivated.
LEMMA DeactivateKeeps ==
    ASSUME ApprovalsInv, NEW u \in Users, Deactivate(u)
    PROVE  ApprovalsInv'
<1> USE DEF ApprovalsInv, Deactivate, Status, WhilePending, Return
<1>1. ApprovalsTypeOK'
    BY ApprovalsAssumption DEF ApprovalsTypeOK, Call, Row, Phases, Statuses, VerdictsAreOutcomes, WinnerIsAlone, AnnouncesWhatStands
<1>2. FilingIsFresh'
    BY DEF ApprovalsTypeOK, Call, Row, FilingIsFresh, Outcomes
<1>3. VerdictsAreOutcomes'
    BY DEF ApprovalsTypeOK, Call, Row, VerdictsAreOutcomes, Outcomes
<1>4. WinnerIsAlone' /\ AnnouncesWhatStands'
    BY DEF ApprovalsTypeOK, Call, Row, WinnerIsAlone, AnnouncesWhatStands, VerdictsAreOutcomes, FilingIsFresh, NoEarlyEffect, Outcomes
<1>5. NoEarlyEffect'
    BY DEF ApprovalsTypeOK, Call, Row, NoEarlyEffect, WinnerIsAlone, AnnouncesWhatStands, VerdictsAreOutcomes, FilingIsFresh, Outcomes
<1>6. EffectLostOnlyByCrash'
    BY DEF ApprovalsTypeOK, Call, Row, EffectLostOnlyByCrash, WinnerIsAlone, AnnouncesWhatStands, VerdictsAreOutcomes, Outcomes
<1> QED
    BY <1>1, <1>2, <1>3, <1>4, <1>5, <1>6

\* Nor does reading a notification.
LEMMA MarkReadKeeps ==
    ASSUME ApprovalsInv, NEW u \in Users, MarkRead(u)
    PROVE  ApprovalsInv'
<1> USE DEF ApprovalsInv, MarkRead, Status, WhilePending, Return
<1>1. ApprovalsTypeOK'
    BY ApprovalsAssumption DEF ApprovalsTypeOK, Call, Row, Phases, Statuses, VerdictsAreOutcomes, WinnerIsAlone, AnnouncesWhatStands
<1>2. FilingIsFresh'
    BY DEF ApprovalsTypeOK, Call, Row, FilingIsFresh, Outcomes
<1>3. VerdictsAreOutcomes'
    BY DEF ApprovalsTypeOK, Call, Row, VerdictsAreOutcomes, Outcomes
<1>4. WinnerIsAlone' /\ AnnouncesWhatStands'
    BY DEF ApprovalsTypeOK, Call, Row, WinnerIsAlone, AnnouncesWhatStands, VerdictsAreOutcomes, FilingIsFresh, NoEarlyEffect, Outcomes
<1>5. NoEarlyEffect'
    BY DEF ApprovalsTypeOK, Call, Row, NoEarlyEffect, WinnerIsAlone, AnnouncesWhatStands, VerdictsAreOutcomes, FilingIsFresh, Outcomes
<1>6. EffectLostOnlyByCrash'
    BY DEF ApprovalsTypeOK, Call, Row, EffectLostOnlyByCrash, WinnerIsAlone, AnnouncesWhatStands, VerdictsAreOutcomes, Outcomes
<1> QED
    BY <1>1, <1>2, <1>3, <1>4, <1>5, <1>6

\* Every step of a call keeps the invariant.
LEMMA CallStepKeeps ==
    ASSUME ApprovalsInv, NEW c \in Callers, CallStep(c)
    PROVE  ApprovalsInv'
BY SaveRequestKeeps, SetAssigneesKeeps, NotifyOnRequestKeeps, ExpireInsteadKeeps,
   PermitKeeps, RefuseKeeps, ClaimKeeps, RunCallbackKeeps, AnnounceKeeps, SweepRowKeeps
   DEF CallStep

\* Every step keeps the invariant.
LEMMA NextKeepsInv == ApprovalsInv /\ [ApprovalsNext]_approvalVars => ApprovalsInv'
<1> SUFFICES ASSUME ApprovalsInv, [ApprovalsNext]_approvalVars
             PROVE  ApprovalsInv'
    OBVIOUS
<1>1. ASSUME NEW c \in Callers, CallStep(c) \/ Die(c)
      PROVE  ApprovalsInv'
    BY <1>1, CallStepKeeps, DieKeeps
<1>2. ASSUME NEW c \in Callers, NEW u \in Users, NEW r \in Requests,
             \/ \E named \in Routings : RequestApproval(c, u, r, named)
             \/ \E v \in {"approved", "rejected", "canceled"} : LoadRequest(c, u, r, v)
      PROVE  ApprovalsInv'
    BY <1>2, RequestApprovalKeeps, LoadRequestKeeps
<1>3. ASSUME NEW c \in Callers, NEW todo \in SUBSET Requests, MarkExpired(c, todo)
      PROVE  ApprovalsInv'
    BY <1>3, MarkExpiredKeeps
<1>4. Overdue \in SUBSET Requests
    BY DEF Overdue
<1>5. CASE Sweep
    BY <1>3, <1>4, <1>5, ApprovalsAssumption DEF Sweep
<1>6. ASSUME NEW r \in Requests, ClockPasses(r)
      PROVE  ApprovalsInv'
    BY <1>6, ClockPassesKeeps
<1>7. ASSUME NEW u \in Users, Deactivate(u) \/ MarkRead(u)
      PROVE  ApprovalsInv'
    BY <1>7, DeactivateKeeps, MarkReadKeeps
<1>8. CASE UNCHANGED approvalVars
    BY <1>8 DEF approvalVars, ApprovalsInv, ApprovalsTypeOK, FilingIsFresh,
                VerdictsAreOutcomes, WinnerIsAlone, AnnouncesWhatStands, NoEarlyEffect,
                EffectLostOnlyByCrash, Status
<1> QED
    BY <1>1, <1>2, <1>3, <1>5, <1>6, <1>7, <1>8, ApprovalsAssumption DEF ApprovalsNext

\* The invariant of the approval service (approvals/services.py): who decided,
\* who holds the callback and what is announced.
LEMMA ApprovalsInvariant == ApprovalsSpec => []ApprovalsInv
BY InitEstablishesInv, NextKeepsInv, PTL DEF ApprovalsSpec

\* The rows, calls and histories keep their types, for any number of
\* requests, users and processes.
THEOREM ApprovalsTypeCorrect == ApprovalsSpec => []ApprovalsTypeOK
BY ApprovalsInvariant, PTL DEF ApprovalsInv

\* An effect registered with a kind (on_decision) is lost only when the
\* process that settled the request dies before it ran it.
THEOREM EffectsSurviveRaces == ApprovalsSpec => []EffectLostOnlyByCrash
BY ApprovalsInvariant, PTL DEF ApprovalsInv

-----------------------------------------------------------------------------
(* Refinement.                                                             *)

\* The initial states are those of the gate.
LEMMA GateInitialised == ApprovalsInit => Gate!GateInit
BY DEF ApprovalsInit, Gate!GateInit, NoRow

\* A step that leaves every status and every effect alone is a stutter.
LEMMA GateStutters ==
    ASSUME UNCHANGED effects, \A r \in Requests : requests'[r].status = requests[r].status
    PROVE  UNCHANGED Gate!gateVars
BY DEF Gate!gateVars

\* A step that changes one status is a step of the gate when it files or
\* settles that request.
LEMMA GateMoves ==
    ASSUME ApprovalsTypeOK, UNCHANGED effects, NEW q \in Requests, NEW o \in Statuses,
           \/ requests[q].status = "none" /\ o = "pending"
           \/ requests[q].status = "pending" /\ o \in Outcomes,
           requests'[q].status = o,
           \A r \in Requests : r # q => requests'[r] = requests[r]
    PROVE  Gate!GateNext
<1> DEFINE out == [r \in Requests |-> requests[r].status]
           new == [r \in Requests |-> requests'[r].status]
<1>1. new = [out EXCEPT ![q] = o]
    OBVIOUS
<1>2. CASE requests[q].status = "none" /\ o = "pending"
    <2>1. Gate!File(q)
        BY <1>1, <1>2 DEF Gate!File
    <2> QED
        BY <2>1 DEF Gate!GateNext
<1>3. CASE requests[q].status = "pending" /\ o \in Outcomes
    <2>1. Gate!Settle(q, o)
        BY <1>1, <1>3 DEF Gate!Settle
    <2>2. o \in Gate!Outcomes
        BY <1>3 DEF Gate!Outcomes, Outcomes
    <2> QED
        BY <2>1, <2>2 DEF Gate!GateNext
<1> QED
    BY <1>2, <1>3

\* Every step is a step of the gate or leaves it alone.
LEMMA NextRefinesGate ==
    ApprovalsInv /\ [ApprovalsNext]_approvalVars => [Gate!GateNext]_(Gate!gateVars)
<1> SUFFICES ASSUME ApprovalsInv, [ApprovalsNext]_approvalVars
             PROVE  Gate!GateNext \/ UNCHANGED Gate!gateVars
    OBVIOUS
<1> USE DEF ApprovalsInv
<1>1. ASSUME NEW c \in Callers, SaveRequest(c)
      PROVE  Gate!GateNext
    <2> DEFINE q == calls[c].req
    <2>1. q \in Requests /\ requests[q].status = "none" /\ UNCHANGED effects
        BY <1>1 DEF SaveRequest, ApprovalsTypeOK, Call, FilingIsFresh, Status
    <2>2. /\ requests'[q].status = "pending"
          /\ \A r \in Requests : r # q => requests'[r] = requests[r]
        BY <1>1, <2>1 DEF SaveRequest, ApprovalsTypeOK, NoRow
    <2> QED
        BY <2>1, <2>2, GateMoves DEF Statuses
<1>2. ASSUME NEW c \in Callers, Claim(c)
      PROVE  Gate!GateNext \/ UNCHANGED Gate!gateVars
    <2> DEFINE q == calls[c].req
    <2>1. q \in Requests /\ calls[c].verdict \in Outcomes /\ UNCHANGED effects
        BY <1>2 DEF Claim, ApprovalsTypeOK, Call, VerdictsAreOutcomes
    <2>2. CASE requests[q].status # "pending"
        BY <1>2, <2>1, <2>2, GateStutters DEF Claim, WhilePending, Status
    <2>3. CASE requests[q].status = "pending"
        <3>1. /\ requests'[q].status = calls[c].verdict
              /\ \A r \in Requests : r # q => requests'[r] = requests[r]
            BY <1>2, <2>1, <2>3 DEF Claim, WhilePending, Status, ApprovalsTypeOK, Row
        <3> QED
            BY <2>1, <2>3, <3>1, GateMoves DEF Statuses
    <2> QED
        BY <2>2, <2>3
<1>3. ASSUME NEW c \in Callers, SweepRow(c)
      PROVE  Gate!GateNext \/ UNCHANGED Gate!gateVars
    <2>1. UNCHANGED effects
        BY <1>3 DEF SweepRow
    <2>2. PICK q \in calls[c].todo :
              IF requests[q].status = "pending"
              THEN requests' = [requests EXCEPT ![q].status = "expired"]
              ELSE UNCHANGED requests
        BY <1>3 DEF SweepRow, WhilePending, Status
    <2>3. q \in Requests
        BY DEF ApprovalsTypeOK, Call
    <2>4. CASE requests[q].status # "pending"
        BY <2>1, <2>2, <2>4, GateStutters
    <2>5. CASE requests[q].status = "pending"
        <3>1. /\ requests'[q].status = "expired"
              /\ \A r \in Requests : r # q => requests'[r] = requests[r]
            BY <2>2, <2>3, <2>5 DEF ApprovalsTypeOK, Row
        <3> QED
            BY <2>1, <2>3, <2>5, <3>1, GateMoves DEF Statuses, Outcomes
    <2> QED
        BY <2>4, <2>5
<1>4. ASSUME NEW c \in Callers, RunCallback(c)
      PROVE  Gate!GateNext
    <2> DEFINE q == calls[c].req
    <2>1. /\ q \in Requests /\ requests[q].status = calls[c].seen
          /\ calls[c].seen \in Outcomes /\ effects[q] = <<>>
        BY <1>4 DEF RunCallback, ApprovalsTypeOK, Call, WinnerIsAlone, Status
    <2>2. \A r \in Requests : requests'[r].status = requests[r].status
        BY <1>4, <2>1 DEF RunCallback, ApprovalsTypeOK, Row
    <2>3. effects' = [effects EXCEPT ![q] = Append(effects[q], calls[c].seen)]
        BY <1>4, <2>1 DEF RunCallback, ApprovalsTypeOK
    <2>4. Append(<<>>, calls[c].seen) = <<calls[c].seen>>
        OBVIOUS
    <2>5. Gate!Effect(q)
        BY <2>1, <2>2, <2>3, <2>4 DEF Gate!Effect, Gate!Outcomes, Outcomes
    <2> QED
        BY <2>1, <2>5 DEF Gate!GateNext
<1>5. ASSUME NEW c \in Callers, SetAssignees(c) \/ Announce(c)
      PROVE  UNCHANGED Gate!gateVars
    <2>1. calls[c].req \in Requests
        BY DEF ApprovalsTypeOK, Call
    <2>2. \A r \in Requests : requests'[r].status = requests[r].status
        <3>1. CASE SetAssignees(c)
            BY <2>1, <3>1 DEF SetAssignees, ApprovalsTypeOK, Row
        <3>2. CASE Announce(c)
            <4>1. requests[calls[c].req].status = calls[c].seen
                BY <3>2 DEF Announce, AnnouncesWhatStands, Status
            <4> QED
                BY <2>1, <3>2, <4>1 DEF Announce, ApprovalsTypeOK, Row
        <3> QED
            BY <1>5, <3>1, <3>2
    <2> QED
        BY <1>5, <2>2, GateStutters DEF SetAssignees, Announce
<1>6. ASSUME UNCHANGED <<requests, effects>>
      PROVE  UNCHANGED Gate!gateVars
    BY <1>6, GateStutters
<1>7. ASSUME NEW c \in Callers, CallStep(c) \/ Die(c)
      PROVE  Gate!GateNext \/ UNCHANGED Gate!gateVars
    BY <1>1, <1>2, <1>3, <1>4, <1>5, <1>6, <1>7
       DEF CallStep, Die, NotifyOnRequest, ExpireInstead, Permit, Refuse
<1>8. CASE \E c \in Callers \ {Sweeper}, u \in Users, r \in Requests :
               \/ \E named \in Routings : RequestApproval(c, u, r, named)
               \/ \E v \in {"approved", "rejected", "canceled"} : LoadRequest(c, u, r, v)
    BY <1>6, <1>8 DEF RequestApproval, LoadRequest
<1>9. CASE \/ \E c \in Callers \ {Sweeper}, todo \in SUBSET Requests : MarkExpired(c, todo)
           \/ Sweep
    BY <1>6, <1>9 DEF MarkExpired, Sweep
<1>10. CASE \/ \E r \in Requests : ClockPasses(r)
            \/ \E u \in Leavers : Deactivate(u)
            \/ \E u \in Users : MarkRead(u)
    BY <1>6, <1>10 DEF ClockPasses, Deactivate, MarkRead
<1>11. CASE UNCHANGED approvalVars
    BY <1>6, <1>11 DEF approvalVars
<1> QED
    BY <1>7, <1>8, <1>9, <1>10, <1>11 DEF ApprovalsNext

\* Whatever calls race and whatever dies half way, the rows and callbacks of
\* apps/approvals behave as ApprovalGate promises.
THEOREM ApprovalsImplementGate == ApprovalsSpec => GateRefined
BY ApprovalsInvariant, GateInitialised, NextRefinesGate, PTL
   DEF ApprovalsSpec, GateRefined, Gate!GateSpec
=============================================================================
