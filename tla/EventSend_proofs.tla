-------------------------- MODULE EventSend_proofs --------------------------
(***************************************************************************)
(* The threads of eventSend.c, for any number of lines, blocks, addresses  *)
(* and failures: every message that a thread took over has one owner, no   *)
(* line is sent twice, and a thread that has ended has either sent its     *)
(* line or reported it.                                                    *)
(***************************************************************************)
EXTENDS EventSend, TLAPS

Occurs(s, t) == \E k \in 1 .. Len(s) : s[k] = t
IsSent(t) == Occurs(sent, t)

(* A thread that is not running yet has no history; one that runs owns a   *)
(* block and was started by a call of sendEvent.                           *)
ThreadsOwn ==
  /\ \A t \in Running : thread[t].msg \in Blocks
  /\ \A t \in Line : thread[t].pc # "none" => t <= events
  /\ \A b \in Blocks : heap[b] <= events
  /\ main = "http" => events > 0

(* A look-up that succeeds finds a stream address.                         *)
Streams == 0 \notin StreamCounts

(* A line is sent by the step to the end of tcpSend only.  What ret means  *)
(* at each place, given Streams: at the end of the list of addresses it is *)
(* negative, since the list was not empty; after it, it tells whether the  *)
(* line was sent.                                                          *)
RetTells ==
  /\ \A t \in Line : thread[t].pc \in {"none", "resolve", "address"} => ~IsSent(t)
  /\ Streams => \A t \in Line : thread[t].pc = "address" =>
       thread[t].left > 0 \/ thread[t].ret < 0
  /\ Streams => \A t \in Line :
       thread[t].pc = "finish" => (IsSent(t) <=> thread[t].ret >= 0)
  /\ \A t \in Line : thread[t].pc # "end" => t \notin reported

OwnInv == EventTypeOK /\ sent \in Seq(Nat) /\ MessagesOwned /\ ThreadsOwn

EventInv ==
  OwnInv /\ RetTells /\ LinesOnce /\ (Streams => LostIsReported)

-----------------------------------------------------------------------------
(* Ownership of the messages *)

(* A step of a running thread that keeps its message keeps the ownership.  *)
LEMMA KeepsMessage ==
  ASSUME OwnInv, MessagesOwned, ThreadsOwn, thread \in [Line -> Thread],
         NEW t \in Running, NEW r \in Thread,
         thread' = [thread EXCEPT ![t] = r],
         r.pc \in {"resolve", "address", "finish"}, r.msg = thread[t].msg,
         UNCHANGED <<heap, events, main>>
  PROVE  MessagesOwned' /\ ThreadsOwn' /\ thread' \in [Line -> Thread]
  <1>1. t \in Line
    BY DEF Running
  <1>2. /\ thread'[t] = r
        /\ \A u \in Line : u # t => thread'[u] = thread[u]
    BY <1>1
  <1>3. Running' = Running
    BY <1>1, <1>2 DEF Running
  <1>4. \A u \in Line : thread'[u].msg = thread[u].msg
    BY <1>2
  <1>5. MessagesOwned'
    <2>1. \A u \in Line : thread'[u].pc = "none" <=> thread[u].pc = "none"
      BY <1>2 DEF Running
    <2>2. \A b \in Blocks : heap[b] # 0 => heap[b] \in Line
      BY DEF OwnInv, EventTypeOK, Line
    <2>3. Leaked' = Leaked
      BY <2>1, <2>2 DEF Leaked
    <2>4. QED
      BY <1>3, <1>4, <2>3 DEF MessagesOwned, Running
  <1>6. ThreadsOwn'
    BY <1>1, <1>2, <1>3, <1>4 DEF ThreadsOwn, Running
  <1>7. QED
    BY <1>1, <1>5, <1>6

(* A line is written to a block that was free and its thread created. *)
LEMMA PrintOwns ==
  ASSUME OwnInv, events < MaxEvents, events' = events + 1,
         NEW b \in malloc, heap' = [heap EXCEPT ![b] = events + 1],
         ThreadCreated(events + 1, b), main' \in {"call", "http"}
  PROVE  /\ MessagesOwned' /\ ThreadsOwn'
         /\ thread' \in [Line -> Thread]
         /\ heap' \in [Blocks -> 0 .. MaxEvents]
         /\ \A u \in Line : \/ thread'[u] = thread[u]
                            \/ thread[u].pc = "none" /\ thread'[u].pc = "resolve"
  <1> DEFINE n == events + 1
  <1>1. /\ n \in Line /\ events \in Nat /\ n # 0 /\ ~(n <= events)
        /\ thread \in [Line -> Thread] /\ heap \in [Blocks -> 0 .. MaxEvents]
    BY EventAssumption DEF OwnInv, EventTypeOK, Line
  <1>2. thread' = [thread EXCEPT ![n] = [NoThread EXCEPT !.pc = "resolve", !.msg = b]]
    BY Zenon DEF ThreadCreated
  <1>3. b \in Blocks /\ heap[b] = 0
    BY DEF malloc
  <1>4. /\ [NoThread EXCEPT !.pc = "resolve", !.msg = b] \in Thread
        /\ [NoThread EXCEPT !.pc = "resolve", !.msg = b].pc = "resolve"
        /\ [NoThread EXCEPT !.pc = "resolve", !.msg = b].msg = b
    BY <1>3 DEF NoThread, Thread
  <1>5. /\ thread' \in [Line -> Thread]
        /\ thread'[n].pc = "resolve" /\ thread'[n].msg = b
        /\ \A u \in Line : u # n => thread'[u] = thread[u]
    BY <1>1, <1>2, <1>4
  <1>6. /\ heap' \in [Blocks -> 0 .. MaxEvents] /\ heap'[b] = n
        /\ \A c \in Blocks : c # b => heap'[c] = heap[c]
    BY <1>1, <1>3 DEF Line
  <1>7. thread[n].pc = "none" /\ n \notin Running
    BY <1>1 DEF OwnInv, ThreadsOwn, Running
  <1>8. Running' = Running \cup {n}
    BY <1>1, <1>5 DEF Running
  <1>9. \A u \in Running : u # n /\ u \in Line /\ u # 0 /\ thread[u].msg # b
    BY <1>3, <1>7 DEF OwnInv, MessagesOwned, Running, Line
  <1>10. \A c \in Blocks : heap[c] # n /\ (heap[c] # 0 => heap[c] \in Line)
    BY <1>1 DEF OwnInv, ThreadsOwn, Line
  <1>11. Leaked' = Leaked
    <2>1. \A c \in Blocks : c # b => (c \in Leaked' <=> c \in Leaked)
      BY <1>5, <1>6, <1>10 DEF Leaked
    <2>2. b \notin Leaked' /\ b \notin Leaked
      BY <1>3, <1>5, <1>6 DEF Leaked
    <2>3. QED
      BY <1>3, <2>1, <2>2 DEF Leaked
  <1>12. MessagesOwned'
    <2>1. \A u \in Running' : heap'[thread'[u].msg] = u
      BY <1>5, <1>6, <1>8, <1>9 DEF OwnInv, MessagesOwned, ThreadsOwn
    <2>2. \A c \in Blocks \ Leaked' :
            heap'[c] # 0 => heap'[c] \in Running' /\ thread'[heap'[c]].msg = c
      BY <1>5, <1>6, <1>8, <1>9, <1>11 DEF OwnInv, MessagesOwned
    <2>3. \A c, e \in Leaked' : heap'[c] = heap'[e] => c = e
      BY <1>3, <1>6, <1>11 DEF OwnInv, MessagesOwned, Leaked
    <2>4. QED
      BY <2>1, <2>2, <2>3 DEF MessagesOwned
  <1>13. ThreadsOwn'
    <2>1. \A u \in Running' : thread'[u].msg \in Blocks
      BY <1>3, <1>5, <1>8, <1>9 DEF OwnInv, ThreadsOwn
    <2>2. \A u \in Line : thread'[u].pc # "none" => u <= events'
      BY <1>1, <1>5 DEF OwnInv, ThreadsOwn, Line
    <2>3. \A c \in Blocks : heap'[c] <= events'
      BY <1>1, <1>6 DEF OwnInv, ThreadsOwn
    <2>4. QED
      BY <1>1, <2>1, <2>2, <2>3 DEF ThreadsOwn
  <1>14. QED
    BY <1>5, <1>6, <1>7, <1>12, <1>13

(* A line is written to a block that was free and its thread refused: the  *)
(* block is leaked, and nothing else changes hands.                        *)
LEMMA RefusalLeaks ==
  ASSUME OwnInv, events < MaxEvents, events' = events + 1,
         NEW b \in malloc, heap' = [heap EXCEPT ![b] = events + 1],
         thread' = thread, main' \in {"call", "http"}
  PROVE  /\ MessagesOwned' /\ ThreadsOwn'
         /\ heap' \in [Blocks -> 0 .. MaxEvents]
  <1> DEFINE n == events + 1
  <1>1. /\ n \in Line /\ events \in Nat /\ n # 0 /\ ~(n <= events)
        /\ heap \in [Blocks -> 0 .. MaxEvents]
    BY EventAssumption DEF OwnInv, EventTypeOK, Line
  <1>2. b \in Blocks /\ heap[b] = 0
    BY DEF malloc
  <1>3. /\ heap' \in [Blocks -> 0 .. MaxEvents] /\ heap'[b] = n
        /\ \A c \in Blocks : c # b => heap'[c] = heap[c]
    BY <1>1, <1>2 DEF Line
  <1>4. thread[n].pc = "none"
    BY <1>1 DEF OwnInv, ThreadsOwn
  <1>5. Leaked' = Leaked \cup {b}
    BY <1>1, <1>2, <1>3, <1>4 DEF Leaked
  <1>6. Running' = Running
    BY DEF Running
  <1>7. \A u \in Running : u # 0 /\ thread[u].msg # b
    BY <1>2 DEF OwnInv, MessagesOwned, Running, Line
  <1>8. \A c \in Blocks : heap[c] # n
    BY <1>1 DEF OwnInv, ThreadsOwn
  <1>9. MessagesOwned'
    <2>1. \A u \in Running' : heap'[thread'[u].msg] = u
      BY <1>3, <1>6, <1>7 DEF OwnInv, MessagesOwned, ThreadsOwn
    <2>2. \A c \in Blocks \ Leaked' :
            heap'[c] # 0 => heap'[c] \in Running' /\ thread'[heap'[c]].msg = c
      BY <1>3, <1>5, <1>6 DEF OwnInv, MessagesOwned
    <2>3. \A c, e \in Leaked' : heap'[c] = heap'[e] => c = e
      BY <1>3, <1>5, <1>8 DEF OwnInv, MessagesOwned, Leaked
    <2>4. QED
      BY <2>1, <2>2, <2>3 DEF MessagesOwned
  <1>10. ThreadsOwn'
    <2>1. \A u \in Line : thread'[u].pc # "none" => u <= events'
      BY <1>1 DEF OwnInv, ThreadsOwn, Line
    <2>2. \A c \in Blocks : heap'[c] <= events'
      BY <1>1, <1>3 DEF OwnInv, ThreadsOwn
    <2>3. QED
      BY <1>1, <1>6, <2>1, <2>2 DEF OwnInv, ThreadsOwn
  <1>11. QED
    BY <1>3, <1>9, <1>10

(* Whatever fails, a logged line keeps the ownership and starts its own    *)
(* thread at most.                                                         *)
LEMMA PrintSteps ==
  ASSUME OwnInv, events < MaxEvents, events' = events + 1,
         remotePrintf(events + 1), main' \in {"call", "http"}
  PROVE  /\ MessagesOwned' /\ ThreadsOwn'
         /\ thread' \in [Line -> Thread]
         /\ heap' \in [Blocks -> 0 .. MaxEvents]
         /\ killed' \in BOOLEAN
         /\ \A u \in Line : \/ thread'[u] = thread[u]
                            \/ thread[u].pc = "none" /\ thread'[u].pc = "resolve"
  <1>1. thread \in [Line -> Thread] /\ heap \in [Blocks -> 0 .. MaxEvents]
        /\ killed \in BOOLEAN
    BY DEF OwnInv, EventTypeOK
  <1>2. ASSUME NEW b \in malloc, heap' = [heap EXCEPT ![b] = events + 1],
               ThreadCreated(events + 1, b)
        PROVE  killed' = killed
    BY <1>2, Zenon DEF ThreadCreated
  <1>3. CASE NoMemory
    <2>1. UNCHANGED <<heap, thread>> /\ killed' = TRUE
      BY <1>3 DEF NoMemory
    <2>2. MessagesOwned'
      BY <2>1 DEF OwnInv, MessagesOwned, Running, Leaked
    <2>3. ThreadsOwn'
      <3>1. events \in Nat /\ Line \subseteq Nat
        BY EventAssumption DEF OwnInv, EventTypeOK, Line
      <3>2. \A b \in Blocks : heap[b] \in Nat
        BY <1>1, EventAssumption
      <3>3. /\ \A u \in Line : thread[u].pc # "none" => u <= events'
            /\ \A b \in Blocks : heap[b] <= events'
        BY <3>1, <3>2 DEF OwnInv, ThreadsOwn
      <3>4. events' > 0
        BY <3>1
      <3>5. QED
        BY <2>1, <3>3, <3>4 DEF OwnInv, ThreadsOwn, Running
    <2>4. QED
      BY <1>1, <2>1, <2>2, <2>3
  <1>4. ASSUME NEW b \in malloc, heap' = [heap EXCEPT ![b] = events + 1], ThreadRefused
        PROVE  /\ MessagesOwned' /\ ThreadsOwn' /\ thread' = thread
               /\ heap' \in [Blocks -> 0 .. MaxEvents] /\ killed' \in BOOLEAN
    <2>1. thread' = thread /\ killed' \in BOOLEAN
      BY <1>4, Zenon DEF ThreadRefused
    <2>2. QED
      BY <1>4, <2>1, RefusalLeaks
  <1>5. ASSUME NEW b \in malloc, heap' = [heap EXCEPT ![b] = events + 1],
               ThreadCreated(events + 1, b)
        PROVE  /\ MessagesOwned' /\ ThreadsOwn'
               /\ thread' \in [Line -> Thread]
               /\ heap' \in [Blocks -> 0 .. MaxEvents]
               /\ \A u \in Line : \/ thread'[u] = thread[u]
                                  \/ thread[u].pc = "none" /\ thread'[u].pc = "resolve"
    BY <1>5, PrintOwns
  <1>6. CASE ~NoMemory
    <2>1. PICK b \in malloc : /\ heap' = [heap EXCEPT ![b] = events + 1]
                              /\ ThreadCreated(events + 1, b) \/ ThreadRefused
      BY <1>6, Zenon DEF remotePrintf
    <2>2. CASE ThreadCreated(events + 1, b)
      BY <1>1, <1>2, <1>5, <2>1, <2>2
    <2>3. CASE ThreadRefused
      BY <1>1, <1>4, <2>1, <2>3
    <2>4. QED
      BY <2>1, <2>2, <2>3
  <1>7. CASE NoMemory
    <2>1. \A u \in Line : thread'[u] = thread[u]
      BY <1>7 DEF NoMemory
    <2>2. QED
      BY <1>1, <1>3, <1>7, <2>1 DEF NoMemory
  <1>8. QED
    BY <1>6, <1>7

(* A thread that ends gives back its own block and no other. *)
LEMMA FinishOwns ==
  ASSUME OwnInv, NEW t \in Line, Finish(t)
  PROVE  /\ MessagesOwned' /\ ThreadsOwn'
         /\ thread' \in [Line -> Thread]
         /\ heap' \in [Blocks -> 0 .. MaxEvents]
         /\ heap[thread[t].msg] = t
  <1> DEFINE b == thread[t].msg
  <1>1. /\ thread \in [Line -> Thread] /\ heap \in [Blocks -> 0 .. MaxEvents]
        /\ MaxEvents \in Nat
    BY EventAssumption DEF OwnInv, EventTypeOK
  <1>2. /\ t \in Running
        /\ thread' = [thread EXCEPT ![t].pc = "end", ![t].msg = NoBlock]
        /\ heap' = [heap EXCEPT ![b] = 0]
        /\ events' = events /\ main' = main
    BY DEF Finish, At, Running, Freed
  <1>3. b \in Blocks /\ heap[b] = t
    BY <1>2 DEF OwnInv, MessagesOwned, ThreadsOwn
  <1>4. /\ thread' \in [Line -> Thread]
        /\ thread'[t].pc = "end"
        /\ \A u \in Line : u # t => thread'[u] = thread[u]
    BY <1>1, <1>2 DEF Thread
  <1>5. /\ heap' \in [Blocks -> 0 .. MaxEvents] /\ heap'[b] = 0
        /\ \A c \in Blocks : c # b => heap'[c] = heap[c]
    BY <1>1, <1>2, <1>3
  <1>6. Running' = Running \ {t}
    BY <1>4 DEF Running
  <1>7. \A u \in Running : u \in Line /\ (u # t => thread[u].msg # b)
    BY <1>3 DEF OwnInv, MessagesOwned, Running
  <1>8. MessagesOwned'
    <2>1. \A u \in Running' : heap'[thread'[u].msg] = u
      BY <1>4, <1>5, <1>6, <1>7 DEF OwnInv, MessagesOwned, ThreadsOwn
    <2>2. thread[t].pc # "none" /\ thread'[t].pc # "none" /\ t # 0
      BY <1>2, <1>4 DEF Running, Line
    <2>3. Leaked' = Leaked
      <3>1. \A c \in Blocks : heap[c] # 0 => heap[c] \in Line
        BY <1>1 DEF Line
      <3>2. \A c \in Blocks : c # b => (c \in Leaked' <=> c \in Leaked)
        BY <1>4, <1>5, <2>2, <3>1 DEF Leaked
      <3>3. b \notin Leaked' /\ b \notin Leaked
        BY <1>3, <1>5, <2>2 DEF Leaked
      <3>4. QED
        BY <1>3, <3>2, <3>3 DEF Leaked
    <2>4. \A c \in Blocks \ Leaked' :
            heap'[c] # 0 => heap'[c] \in Running' /\ thread'[heap'[c]].msg = c
      BY <1>3, <1>4, <1>5, <1>6, <1>7, <2>3 DEF OwnInv, MessagesOwned
    <2>5. \A c, e \in Leaked' : heap'[c] = heap'[e] => c = e
      <3>1. b \notin Leaked
        BY <1>3, <2>2 DEF Leaked
      <3>2. QED
        BY <1>5, <2>3, <3>1 DEF OwnInv, MessagesOwned, Leaked
    <2>6. QED
      BY <2>1, <2>4, <2>5 DEF MessagesOwned
  <1>9. ThreadsOwn'
    <2>1. t <= events
      BY <1>2 DEF OwnInv, ThreadsOwn, Running
    <2>2. events \in Nat
      BY EventAssumption DEF OwnInv, EventTypeOK
    <2>3. \A c \in Blocks : heap'[c] <= events'
      BY <1>2, <1>3, <1>5, <2>2 DEF OwnInv, ThreadsOwn
    <2>4. \A u \in Running' : thread'[u].msg \in Blocks
      BY <1>4, <1>6, <1>7 DEF OwnInv, ThreadsOwn
    <2>5. \A u \in Line : thread'[u].pc # "none" => u <= events'
      BY <1>2, <1>4, <2>1 DEF OwnInv, ThreadsOwn
    <2>6. QED
      BY <1>2, <2>3, <2>4, <2>5 DEF OwnInv, ThreadsOwn
  <1>10. QED
    BY <1>3, <1>4, <1>5, <1>8, <1>9

(* The steps of a thread other than its end change its place, the number   *)
(* of addresses left and ret.                                              *)
LEMMA ThreadFields ==
  ASSUME OwnInv, NEW t \in Line,
         Resolve(t) \/ ResolveFails(t) \/ AddressFails(t) \/ AddressWorks(t)
           \/ BrokenPipe(t) \/ NoMoreAddresses(t)
  PROVE  /\ t \in Running
         /\ UNCHANGED <<main, events, heap, reported, requests>>
         /\ MessagesOwned' /\ ThreadsOwn' /\ thread' \in [Line -> Thread]
  <1>1. /\ thread \in [Line -> Thread] /\ StreamCounts \subseteq Nat
        /\ MessagesOwned /\ ThreadsOwn
    BY EventAssumption DEF OwnInv, EventTypeOK
  <1>2. /\ t \in Running
        /\ UNCHANGED <<main, events, heap, reported, requests>>
    <2>1. CASE Resolve(t) \/ NoMoreAddresses(t)
      <3>1. /\ At(t, "resolve") \/ At(t, "address")
            /\ UNCHANGED <<main, events, heap, sent, reported, requests, killed>>
        BY <2>1, Zenon DEF Resolve, NoMoreAddresses
      <3>2. QED
        BY <3>1 DEF At, Running
    <2>2. CASE ResolveFails(t) \/ BrokenPipe(t)
      BY <2>2 DEF ResolveFails, BrokenPipe, At, Running
    <2>3. CASE AddressFails(t) \/ AddressWorks(t)
      BY <2>3 DEF AddressFails, AddressWorks, At, Running
    <2>4. QED
      BY <2>1, <2>2, <2>3
  <1>3. CASE thread' = thread
    BY <1>1, <1>2, <1>3 DEF MessagesOwned, ThreadsOwn, Running, Leaked
  <1>4. CASE Resolve(t)
    <2>1. PICK k \in StreamCounts :
            thread' = [thread EXCEPT ![t].pc = "address", ![t].left = k, ![t].ret = 0]
      BY <1>4, Zenon DEF Resolve
    <2> DEFINE r == [thread[t] EXCEPT !.pc = "address", !.left = k, !.ret = 0]
    <2>2. r \in Thread /\ r.pc = "address" /\ r.msg = thread[t].msg
      BY <1>1 DEF Thread
    <2>3. thread' = [thread EXCEPT ![t] = r]
      BY <2>1, <1>1
    <2> HIDE DEF r
    <2>4. QED
      BY <1>1, <1>2, <2>2, <2>3, KeepsMessage
  <1>5. CASE thread' = [thread EXCEPT ![t].pc = "finish", ![t].ret = -1]
    <2> DEFINE r == [thread[t] EXCEPT !.pc = "finish", !.ret = -1]
    <2>1. r \in Thread /\ r.pc = "finish" /\ r.msg = thread[t].msg
      BY <1>1 DEF Thread
    <2>2. thread' = [thread EXCEPT ![t] = r]
      BY <1>5, <1>1
    <2> HIDE DEF r
    <2>3. QED
      BY <1>1, <1>2, <2>1, <2>2, KeepsMessage
  <1>6. CASE AddressFails(t)
    <2> DEFINE r == [thread[t] EXCEPT !.left = thread[t].left - 1, !.ret = -2]
    <2>1. thread[t].left \in Nat /\ thread[t].left > 0 /\ thread[t].pc = "address"
      BY <1>1, <1>6 DEF AddressFails, At, Thread
    <2>2. r \in Thread /\ r.pc = "address" /\ r.msg = thread[t].msg
      <3>1. thread[t].left - 1 \in Nat /\ -2 \in {-2, -1, 0, 1}
        BY <2>1
      <3>2. QED
        BY <1>1, <2>1, <3>1 DEF Thread
    <2>3. thread' = [thread EXCEPT ![t] = r]
      BY <1>6, <1>1 DEF AddressFails, FailedRet
    <2> HIDE DEF r
    <2>4. QED
      BY <1>1, <1>2, <2>2, <2>3, KeepsMessage
  <1>7. CASE AddressWorks(t)
    <2> DEFINE r == [thread[t] EXCEPT !.pc = "finish", !.left = thread[t].left - 1, !.ret = 1]
    <2>1. thread[t].left \in Nat /\ thread[t].left > 0
      BY <1>1, <1>7 DEF AddressWorks, Thread
    <2>2. r \in Thread /\ r.pc = "finish" /\ r.msg = thread[t].msg
      <3>1. thread[t].left - 1 \in Nat
        BY <2>1
      <3>2. QED
        BY <1>1, <3>1 DEF Thread
    <2>3. thread' = [thread EXCEPT ![t] = r]
      BY <1>7, <1>1 DEF AddressWorks, AfterSend
    <2> HIDE DEF r
    <2>4. QED
      BY <1>1, <1>2, <2>2, <2>3, KeepsMessage
  <1>8. CASE NoMoreAddresses(t)
    <2> DEFINE r == [thread[t] EXCEPT !.pc = "finish"]
    <2>1. r \in Thread /\ r.pc = "finish" /\ r.msg = thread[t].msg
      BY <1>1 DEF Thread
    <2>2. thread' = [thread EXCEPT ![t] = r]
      BY <1>8, <1>1 DEF NoMoreAddresses
    <2> HIDE DEF r
    <2>3. QED
      BY <1>1, <1>2, <2>1, <2>2, KeepsMessage
  <1>9. QED
    BY <1>3, <1>4, <1>5, <1>6, <1>7, <1>8 DEF ResolveFails, BrokenPipe

(* The call of sendEvent and the request keep the ownership. *)
LEMMA MainOwns ==
  ASSUME OwnInv, Main
  PROVE  OwnInv'
  <1>1. /\ events \in 0 .. MaxEvents /\ MaxEvents \in Nat
        /\ heap \in [Blocks -> 0 .. MaxEvents] /\ thread \in [Line -> Thread]
        /\ \A k \in 1 .. Len(sent) : sent[k] \in 1 .. events
        /\ reported \subseteq 1 .. events /\ requests \subseteq 1 .. events
        /\ sent \in Seq(Nat) /\ MessagesOwned /\ ThreadsOwn /\ killed \in BOOLEAN
    BY EventAssumption DEF OwnInv, EventTypeOK
  <1>2. CASE sendEvent \/ Overflow \/ NoEventName
    <2>1. /\ events < MaxEvents /\ events' = events + 1
          /\ main' \in {"call", "http"}
          /\ UNCHANGED <<sent, reported, requests>>
          /\ \/ remotePrintf(events + 1)
             \/ UNCHANGED <<heap, thread>> /\ killed' \in BOOLEAN
      BY <1>1, <1>2, EventAssumption, Zenon DEF sendEvent, Overflow, NoEventName
    <2>2. events' \in 0 .. MaxEvents /\ events < events'
      BY <1>1, <2>1
    <2>3. /\ \A k \in 1 .. Len(sent) : sent[k] \in 1 .. events'
          /\ reported \subseteq 1 .. events' /\ requests \subseteq 1 .. events'
      BY <1>1, <2>2
    <2>4. /\ MessagesOwned' /\ ThreadsOwn'
          /\ thread' \in [Line -> Thread] /\ heap' \in [Blocks -> 0 .. MaxEvents]
          /\ killed' \in BOOLEAN
      <3>1. CASE UNCHANGED <<heap, thread>> /\ killed' \in BOOLEAN
        <4>1. MessagesOwned'
          BY <1>1, <3>1 DEF MessagesOwned, Running, Leaked
        <4>2. ThreadsOwn'
          <5>1. \A t \in Line : thread[t].pc # "none" => t <= events'
            BY <1>1, <2>1 DEF ThreadsOwn, Line
          <5>2. events' > 0
            BY <1>1, <2>1
          <5>3. \A b \in Blocks : heap[b] <= events'
            BY <1>1, <2>1 DEF ThreadsOwn
          <5>4. QED
            BY <1>1, <3>1, <5>1, <5>2, <5>3 DEF ThreadsOwn, Running
        <4>3. QED
          BY <1>1, <3>1, <4>1, <4>2
      <3>2. CASE remotePrintf(events + 1)
        BY <2>1, <3>2, PrintSteps
      <3>3. QED
        BY <2>1, <3>1, <3>2
    <2>5. EventTypeOK'
      BY <1>1, <2>1, <2>2, <2>3, <2>4 DEF EventTypeOK
    <2>6. QED
      BY <1>1, <2>1, <2>4, <2>5 DEF OwnInv
  <1>3. CASE HttpRequest
    <2>1. /\ events > 0 /\ events \in 1 .. events
          /\ requests' = requests \cup {events} /\ main' = "call"
          /\ UNCHANGED <<events, heap, thread, sent, reported, killed>>
      BY <1>1, <1>3 DEF HttpRequest, ThreadsOwn
    <2>2. EventTypeOK'
      BY <1>1, <2>1 DEF EventTypeOK
    <2>3. MessagesOwned' /\ ThreadsOwn'
      BY <1>1, <2>1 DEF MessagesOwned, ThreadsOwn, Running, Leaked
    <2>4. QED
      BY <1>1, <2>1, <2>2, <2>3 DEF OwnInv
  <1>4. QED
    BY <1>2, <1>3 DEF Main

(* A step of a thread keeps the ownership. *)
LEMMA ThreadOwns ==
  ASSUME OwnInv, NEW t \in Line, tcpSend(t)
  PROVE  OwnInv'
  <1>1. /\ events \in 0 .. MaxEvents /\ MaxEvents \in Nat
        /\ heap \in [Blocks -> 0 .. MaxEvents] /\ thread \in [Line -> Thread]
        /\ \A k \in 1 .. Len(sent) : sent[k] \in 1 .. events
        /\ reported \subseteq 1 .. events /\ requests \subseteq 1 .. events
        /\ sent \in Seq(Nat) /\ main \in {"call", "http"} /\ killed \in BOOLEAN
    BY EventAssumption DEF OwnInv, EventTypeOK
  <1>2. CASE Finish(t)
    <2>1. /\ MessagesOwned' /\ ThreadsOwn' /\ thread' \in [Line -> Thread]
          /\ heap' \in [Blocks -> 0 .. MaxEvents]
          /\ heap[thread[t].msg] = t
      BY <1>2, FinishOwns
    <2>2. /\ reported' \subseteq reported \cup {t}
          /\ UNCHANGED <<main, events, sent, requests, killed>>
          /\ thread[t].pc = "finish"
      BY <1>2, <2>1 DEF Finish, At
    <2>3. t \in 1 .. events
      BY <1>1, <2>2 DEF OwnInv, ThreadsOwn, Line
    <2>4. EventTypeOK'
      BY <1>1, <2>1, <2>2, <2>3 DEF EventTypeOK
    <2>5. QED
      BY <1>1, <2>1, <2>2, <2>4 DEF OwnInv
  <1>3. CASE Resolve(t) \/ ResolveFails(t) \/ AddressFails(t) \/ AddressWorks(t)
             \/ BrokenPipe(t) \/ NoMoreAddresses(t)
    <2>1. /\ t \in Running
          /\ UNCHANGED <<main, events, heap, reported, requests>>
          /\ MessagesOwned' /\ ThreadsOwn' /\ thread' \in [Line -> Thread]
      BY <1>3, ThreadFields
    <2>2. killed' = killed \/ killed' = TRUE
      BY <1>3, Zenon DEF Resolve, ResolveFails, AddressFails, AddressWorks,
                         BrokenPipe, NoMoreAddresses
    <2>3. sent' = sent \/ sent' = Append(sent, heap[thread[t].msg])
      BY <1>3, Zenon DEF Resolve, ResolveFails, AddressFails, AddressWorks,
                         BrokenPipe, NoMoreAddresses
    <2>4. heap[thread[t].msg] = t /\ t \in 1 .. events /\ t \in Nat
      BY <1>1, <2>1 DEF OwnInv, MessagesOwned, ThreadsOwn, Running, Line
    <2>5. sent' \in Seq(Nat) /\ \A k \in 1 .. Len(sent') : sent'[k] \in 1 .. events
      <3>1. CASE sent' = sent
        BY <1>1, <3>1
      <3>2. CASE sent' = Append(sent, t)
        BY <1>1, <2>4, <3>2
      <3>3. QED
        BY <2>3, <2>4, <3>1, <3>2
    <2>6. EventTypeOK'
      BY <1>1, <2>1, <2>2, <2>5 DEF EventTypeOK
    <2>7. QED
      BY <2>1, <2>5, <2>6 DEF OwnInv
  <1>4. QED
    BY <1>2, <1>3 DEF tcpSend

(* No thread and no message exists at the start.                           *)
LEMMA OwnInit == Init => OwnInv
  <1> SUFFICES ASSUME Init PROVE OwnInv
    OBVIOUS
  <1>1. NoThread \in Thread /\ NoThread.pc = "none"
    BY DEF NoThread, Thread
  <1>2. Running = {} /\ \A t \in Line : thread[t].pc = "none"
    BY <1>1 DEF Init, Running
  <1>3. EventTypeOK /\ sent \in Seq(Nat)
    <2>1. 0 \in 0 .. MaxEvents
      BY EventAssumption
    <2>2. sent \in Seq(Nat) /\ Len(sent) = 0
      BY DEF Init
    <2>3. heap \in [Blocks -> 0 .. MaxEvents] /\ thread \in [Line -> Thread]
      BY <1>1, <2>1 DEF Init
    <2>4. killed \in BOOLEAN
      BY DEF Init
    <2>5. QED
      BY <2>1, <2>2, <2>3, <2>4 DEF Init, EventTypeOK
  <1>4. MessagesOwned
    BY <1>2 DEF Init, MessagesOwned, Leaked
  <1>5. ThreadsOwn
    BY <1>2 DEF Init, ThreadsOwn
  <1>6. QED
    BY <1>3, <1>4, <1>5 DEF OwnInv

(* Every step keeps the ownership.                                         *)
LEMMA OwnNext == OwnInv /\ [Next]_vars => OwnInv'
  <1> SUFFICES ASSUME OwnInv, [Next]_vars PROVE OwnInv'
    OBVIOUS
  <1>1. CASE Main
    BY <1>1, MainOwns
  <1>2. ASSUME NEW t \in Line, tcpSend(t) PROVE OwnInv'
    BY <1>2, ThreadOwns
  <1>3. CASE UNCHANGED vars
    BY <1>3 DEF vars, OwnInv, EventTypeOK, MessagesOwned, ThreadsOwn, Running, Leaked
  <1>4. QED
    BY <1>1, <1>2, <1>3 DEF Next

(* The threads, the heap and the records of what was sent keep their types *)
(* for any number of lines, blocks and addresses.                          *)
THEOREM EventTypes == Spec => []EventTypeOK
  <1>1. OwnInv => EventTypeOK
    BY DEF OwnInv
  <1>2. QED
    BY <1>1, OwnInit, OwnNext, PTL DEF Spec

(* At every moment each running thread owns one block, with its own line;  *)
(* every other block in use belongs to a line whose thread was refused,    *)
(* one for each such line: nothing else is lost, and nothing is shared or  *)
(* freed twice, whatever malloc, pthread_create and the network do.        *)
THEOREM MessagesStayOwned == Spec => []MessagesOwned
  <1>1. OwnInv => MessagesOwned
    BY DEF OwnInv
  <1>2. QED
    BY <1>1, OwnInit, OwnNext, PTL DEF Spec

-----------------------------------------------------------------------------
(* What happened to a line *)

(* Appending a line adds that line and, if it is new, no duplicate. *)
LEMMA AppendOccurs ==
  ASSUME NEW s \in Seq(Nat), NEW t \in Nat
  PROVE  /\ Append(s, t) \in Seq(Nat)
         /\ \A u : Occurs(Append(s, t), u) <=> Occurs(s, u) \/ u = t
         /\ ~Occurs(s, t) /\ (\A j, k \in 1 .. Len(s) : s[j] = s[k] => j = k)
              => \A j, k \in 1 .. Len(Append(s, t)) :
                   Append(s, t)[j] = Append(s, t)[k] => j = k
  <1> DEFINE a == Append(s, t)
  <1>1. /\ a \in Seq(Nat) /\ Len(s) \in Nat /\ Len(a) = Len(s) + 1
        /\ \A k \in 1 .. Len(s) : a[k] = s[k]
        /\ a[Len(s) + 1] = t
    OBVIOUS
  <1>2. 1 .. Len(a) = (1 .. Len(s)) \cup {Len(s) + 1}
    BY <1>1
  <1> HIDE DEF a
  <1>3. \A u : Occurs(a, u) <=> Occurs(s, u) \/ u = t
    BY <1>1, <1>2 DEF Occurs
  <1>4. ASSUME ~Occurs(s, t), \A j, k \in 1 .. Len(s) : s[j] = s[k] => j = k
        PROVE  \A j, k \in 1 .. Len(a) : a[j] = a[k] => j = k
    BY <1>1, <1>2, <1>4 DEF Occurs
  <1>5. QED
    BY <1>1, <1>3, <1>4 DEF a

(* A thread that moves on to an address or to its end, with or without     *)
(* having sent its line.                                                   *)
LEMMA MovesOn ==
  ASSUME EventInv, NEW t \in Running,
         \A u \in Line : u # t => thread'[u] = thread[u],
         reported' = reported, events' = events,
         \/ /\ sent' = sent /\ thread'[t].pc = "address"
            /\ thread[t].pc \in {"resolve", "address"}
            /\ Streams => thread'[t].left > 0 \/ thread'[t].ret < 0
         \/ /\ sent' = sent /\ thread'[t].pc = "finish"
            /\ thread[t].pc \in {"resolve", "address"}
            /\ Streams => ~(thread'[t].ret >= 0)
         \/ /\ sent' = Append(sent, t) /\ thread'[t].pc = "finish"
            /\ thread[t].pc = "address" /\ thread'[t].ret >= 0
  PROVE  RetTells' /\ LinesOnce' /\ (Streams => LostIsReported')
  <1>1. t \in Line /\ t \in Nat /\ sent \in Seq(Nat)
    BY DEF EventInv, OwnInv, Running, Line
  <1>2. ~IsSent(t) /\ t \notin reported
    BY <1>1 DEF EventInv, RetTells
  <1>3. /\ \A u : Occurs(sent', u) <=>
             Occurs(sent, u) \/ (u = t /\ sent' # sent)
        /\ LinesOnce'
    <2>1. CASE sent' = sent
      BY <2>1 DEF EventInv, LinesOnce
    <2>2. CASE sent' = Append(sent, t)
      <3>1. /\ \A u : Occurs(sent', u) <=> Occurs(sent, u) \/ u = t
            /\ LinesOnce'
        BY <1>1, <1>2, <2>2, AppendOccurs DEF EventInv, LinesOnce, IsSent
      <3>2. sent' # sent
        BY <1>1, <2>2
      <3>3. QED
        BY <3>1, <3>2
    <2>3. QED
      BY <2>1, <2>2
  <1>4. \A u \in Line : u # t => (Occurs(sent', u) <=> Occurs(sent, u))
    BY <1>3
  <1>5. sent' = Append(sent, t) => sent' # sent
    BY <1>1
  <1>6. RetTells'
    <2>1. \A u \in Line : thread'[u].pc \in {"none", "resolve", "address"}
            => ~Occurs(sent', u)
      BY <1>2, <1>3, <1>4 DEF EventInv, RetTells, IsSent
    <2>2. Streams => \A u \in Line : thread'[u].pc = "address" =>
            thread'[u].left > 0 \/ thread'[u].ret < 0
      BY DEF EventInv, RetTells
    <2>3. Streams => \A u \in Line : thread'[u].pc = "finish" =>
            (Occurs(sent', u) <=> thread'[u].ret >= 0)
      BY <1>2, <1>3, <1>4, <1>5 DEF EventInv, RetTells, IsSent
    <2>4. \A u \in Line : thread'[u].pc # "end" => u \notin reported'
      BY <1>2 DEF EventInv, RetTells
    <2>5. QED
      BY <2>1, <2>2, <2>3, <2>4 DEF RetTells, IsSent
  <1>7. Streams => LostIsReported'
    <2>1. Streams => \A u \in Line : thread'[u].pc = "end" => (Occurs(sent', u) <=> u \notin reported')
      BY <1>4 DEF EventInv, LostIsReported, Occurs
    <2>2. QED
      BY <2>1 DEF LostIsReported, Occurs
  <1>8. QED
    BY <1>3, <1>6, <1>7

(* Steps that start threads, or that the threads do not see. *)
LEMMA Starts ==
  ASSUME EventInv, UNCHANGED <<sent, reported>>, thread' \in [Line -> Thread],
         \A u \in Line : \/ thread'[u] = thread[u]
                         \/ thread[u].pc = "none" /\ thread'[u].pc = "resolve"
  PROVE  RetTells' /\ LinesOnce' /\ (Streams => LostIsReported')
  <1>1. RetTells'
    <2>1. \A u \in Line : thread'[u].pc \in {"none", "resolve", "address"}
            => ~Occurs(sent', u)
      BY DEF EventInv, RetTells, IsSent
    <2>2. Streams => \A u \in Line : thread'[u].pc = "address" =>
            thread'[u].left > 0 \/ thread'[u].ret < 0
      BY DEF EventInv, RetTells
    <2>3. Streams => \A u \in Line : thread'[u].pc = "finish" =>
            (Occurs(sent', u) <=> thread'[u].ret >= 0)
      BY DEF EventInv, RetTells, IsSent
    <2>4. \A u \in Line : thread'[u].pc # "end" => u \notin reported'
      BY DEF EventInv, RetTells
    <2>5. QED
      BY <2>1, <2>2, <2>3, <2>4 DEF RetTells, IsSent
  <1>2. LinesOnce'
    BY DEF EventInv, LinesOnce
  <1>3. Streams => LostIsReported'
    BY DEF EventInv, LostIsReported
  <1>4. QED
    BY <1>1, <1>2, <1>3

(* The end of a thread: it reports its line exactly if it was not sent. *)
LEMMA EndTells ==
  ASSUME EventInv, NEW t \in Line, Finish(t)
  PROVE  RetTells' /\ LinesOnce' /\ (Streams => LostIsReported')
  <1>1. thread \in [Line -> Thread] /\ heap[thread[t].msg] = t
    BY FinishOwns DEF EventInv, OwnInv, EventTypeOK
  <1>2. /\ thread[t].pc = "finish" /\ sent' = sent
        /\ reported' = IF thread[t].ret < 0 THEN reported \cup {t} ELSE reported
        /\ thread' = [thread EXCEPT ![t].pc = "end", ![t].msg = NoBlock]
    BY <1>1 DEF Finish, At
  <1>3. /\ thread'[t].pc = "end"
        /\ \A u \in Line : u # t => thread'[u] = thread[u]
    BY <1>1, <1>2 DEF Thread
  <1>4. thread[t].ret \in {-2, -1, 0, 1}
    BY <1>1 DEF Thread
  <1>5. /\ Streams => (Occurs(sent, t) <=> ~(thread[t].ret < 0))
        /\ t \notin reported
    <2>1. /\ Streams => (Occurs(sent, t) <=> thread[t].ret >= 0)
          /\ t \notin reported
      BY <1>2 DEF EventInv, RetTells, IsSent
    <2>2. QED
      BY <1>4, <2>1
  <1>6. RetTells'
    <2>1. \A u \in Line : thread'[u].pc \in {"none", "resolve", "address"}
            => ~Occurs(sent', u)
      BY <1>2, <1>3 DEF EventInv, RetTells, IsSent
    <2>2. Streams => \A u \in Line : thread'[u].pc = "address" =>
            thread'[u].left > 0 \/ thread'[u].ret < 0
      BY <1>3 DEF EventInv, RetTells
    <2>3. Streams => \A u \in Line : thread'[u].pc = "finish" =>
            (Occurs(sent', u) <=> thread'[u].ret >= 0)
      BY <1>2, <1>3 DEF EventInv, RetTells, IsSent
    <2>4. \A u \in Line : thread'[u].pc # "end" => u \notin reported'
      BY <1>2, <1>3 DEF EventInv, RetTells
    <2>5. QED
      BY <2>1, <2>2, <2>3, <2>4 DEF RetTells, IsSent
  <1>7. LinesOnce'
    BY <1>2 DEF EventInv, LinesOnce
  <1>8. Streams => LostIsReported'
    <2>1. Streams => \A u \in Line : thread'[u].pc = "end" => (Occurs(sent', u) <=> u \notin reported')
      BY <1>2, <1>3, <1>5 DEF EventInv, LostIsReported, Occurs
    <2>2. QED
      BY <2>1 DEF LostIsReported, Occurs
  <1>9. QED
    BY <1>6, <1>7, <1>8

(* Every step of a thread before its end. *)
LEMMA TriesTell ==
  ASSUME EventInv, NEW t \in Line,
         Resolve(t) \/ ResolveFails(t) \/ AddressFails(t) \/ AddressWorks(t)
           \/ BrokenPipe(t) \/ NoMoreAddresses(t)
  PROVE  RetTells' /\ LinesOnce' /\ (Streams => LostIsReported')
  <1>1. /\ thread \in [Line -> Thread] /\ StreamCounts \subseteq Nat
        /\ thread[t].left \in Nat /\ thread[t].ret \in {-2, -1, 0, 1}
    BY EventAssumption DEF EventInv, OwnInv, EventTypeOK, Thread
  <1>2. /\ t \in Running /\ heap[thread[t].msg] = t
        /\ reported' = reported /\ events' = events
        /\ thread' \in [Line -> Thread]
    BY ThreadFields DEF EventInv, OwnInv, MessagesOwned
  <1>3. CASE UNCHANGED <<thread, sent>>
    BY <1>2, <1>3, Starts
  <1>4. CASE Resolve(t)
    <2>1. PICK k \in StreamCounts :
            thread' = [thread EXCEPT ![t].pc = "address", ![t].left = k, ![t].ret = 0]
      BY <1>4, Zenon DEF Resolve
    <2>2. /\ thread'[t].pc = "address" /\ thread'[t].left = k
          /\ \A u \in Line : u # t => thread'[u] = thread[u]
      BY <1>1, <2>1 DEF Thread
    <2>3. Streams => k > 0
      BY <1>1 DEF Streams
    <2>4. thread[t].pc = "resolve" /\ sent' = sent
      BY <1>4, Zenon DEF Resolve, At
    <2>5. QED
      BY <1>2, <2>2, <2>3, <2>4, MovesOn
  <1>5. CASE ResolveFails(t) /\ thread' # thread
    <2>1. /\ thread' = [thread EXCEPT ![t].pc = "finish", ![t].ret = -1]
          /\ thread[t].pc = "resolve" /\ sent' = sent
      BY <1>5 DEF ResolveFails, At
    <2>2. /\ thread'[t].pc = "finish" /\ thread'[t].ret = -1
          /\ \A u \in Line : u # t => thread'[u] = thread[u]
      BY <1>1, <2>1 DEF Thread
    <2>3. ~(thread'[t].ret >= 0)
      BY <2>2
    <2>4. QED
      BY <1>2, <2>1, <2>2, <2>3, MovesOn
  <1>6. CASE AddressFails(t)
    <2>1. /\ thread' = [thread EXCEPT ![t].left = thread[t].left - 1, ![t].ret = -2]
          /\ thread[t].pc = "address" /\ sent' = sent
      BY <1>6 DEF AddressFails, FailedRet, At
    <2>2. /\ thread'[t].pc = "address" /\ thread'[t].ret = -2
          /\ \A u \in Line : u # t => thread'[u] = thread[u]
      BY <1>1, <2>1 DEF Thread
    <2>3. thread'[t].ret < 0
      BY <2>2
    <2>4. QED
      BY <1>2, <2>1, <2>2, <2>3, MovesOn
  <1>7. CASE AddressWorks(t)
    <2>1. /\ thread' = [thread EXCEPT ![t].pc = "finish",
                                     ![t].left = thread[t].left - 1, ![t].ret = 1]
          /\ thread[t].pc = "address" /\ sent' = Append(sent, t)
      BY <1>2, <1>7 DEF AddressWorks, AfterSend, At
    <2>2. /\ thread'[t].pc = "finish" /\ thread'[t].ret = 1
          /\ \A u \in Line : u # t => thread'[u] = thread[u]
      BY <1>1, <2>1 DEF Thread
    <2>3. thread'[t].ret >= 0
      BY <2>2
    <2>4. QED
      BY <1>2, <2>1, <2>2, <2>3, MovesOn
  <1>8. CASE NoMoreAddresses(t)
    <2>1. /\ thread' = [thread EXCEPT ![t].pc = "finish"]
          /\ thread[t].pc = "address" /\ thread[t].left = 0 /\ sent' = sent
      BY <1>8 DEF NoMoreAddresses, At
    <2>2. /\ thread'[t].pc = "finish" /\ thread'[t].ret = thread[t].ret
          /\ \A u \in Line : u # t => thread'[u] = thread[u]
      BY <1>1, <2>1 DEF Thread
    <2>3. Streams => thread[t].ret < 0
      BY <2>1 DEF EventInv, RetTells
    <2>4. Streams => ~(thread'[t].ret >= 0)
      BY <1>1, <2>2, <2>3
    <2>5. QED
      BY <1>2, <2>1, <2>2, <2>4, MovesOn
  <1>9. QED
    BY <1>3, <1>4, <1>5, <1>6, <1>7, <1>8 DEF ResolveFails, BrokenPipe

(* EventInv holds at the start.                                            *)
LEMMA EventInit == Init => EventInv
  <1> SUFFICES ASSUME Init PROVE EventInv
    OBVIOUS
  <1>1. \A t \in Line : thread[t].pc = "none"
    BY DEF Init, NoThread
  <1>2. Len(sent) = 0 /\ reported = {}
    BY DEF Init
  <1>3. \A t \in Line : ~Occurs(sent, t)
    BY <1>2 DEF Occurs
  <1>4. QED
    BY <1>1, <1>2, <1>3, OwnInit
    DEF EventInv, RetTells, LinesOnce, LostIsReported, IsSent

(* Every step keeps EventInv.                                              *)
LEMMA EventNext == EventInv /\ [Next]_vars => EventInv'
  <1> SUFFICES ASSUME EventInv, [Next]_vars PROVE EventInv'
    OBVIOUS
  <1>1. OwnInv /\ OwnInv'
    BY OwnNext DEF EventInv
  <1>2. thread' \in [Line -> Thread]
    BY <1>1 DEF OwnInv, EventTypeOK
  <1>3. CASE sendEvent /\ thread' # thread
    <2>1. /\ remotePrintf(events + 1) /\ UNCHANGED <<sent, reported>>
          /\ events < MaxEvents /\ events' = events + 1 /\ main' \in {"call", "http"}
      BY <1>3, Zenon DEF sendEvent
    <2>2. \A u \in Line : \/ thread'[u] = thread[u]
                          \/ thread[u].pc = "none" /\ thread'[u].pc = "resolve"
      BY <1>1, <2>1, PrintSteps
    <2>3. QED
      BY <1>1, <1>2, <2>1, <2>2, Starts DEF EventInv
  <1>4. CASE Main /\ thread' = thread
    <2>1. UNCHANGED <<sent, reported>>
      BY <1>4 DEF Main, sendEvent, Overflow, NoEventName, HttpRequest
    <2>2. QED
      BY <1>1, <1>2, <1>4, <2>1, Starts DEF EventInv
  <1>5. ASSUME NEW t \in Line, tcpSend(t) PROVE EventInv'
    BY <1>1, <1>5, EndTells, TriesTell DEF tcpSend, EventInv
  <1>6. CASE UNCHANGED vars
    BY <1>1, <1>2, <1>6, Starts DEF vars, EventInv
  <1>7. CASE Main
    BY <1>3, <1>4, <1>7 DEF Main, Overflow, NoEventName, HttpRequest
  <1>8. QED
    BY <1>5, <1>6, <1>7 DEF Next

(* No line of the access log is sent twice, for any number of threads that *)
(* run side by side and addresses that fail.                               *)
THEOREM NoLineTwice == Spec => []LinesOnce
  <1>1. EventInv => LinesOnce
    BY DEF EventInv
  <1>2. QED
    BY <1>1, EventInit, EventNext, PTL DEF Spec

(* A line that could not be sent is reported and one that was sent is not, *)
(* provided that a look-up that succeeds finds a stream address.           *)
THEOREM LossesAreReported ==
  ASSUME 0 \notin StreamCounts
  PROVE  Spec => []LostIsReported
  <1>1. EventInv => LostIsReported
    BY DEF EventInv, Streams
  <1>2. QED
    BY <1>1, EventInit, EventNext, PTL DEF Spec
=============================================================================
