------------------------------ MODULE EventSend ------------------------------
(***************************************************************************)
(* eventSend.c: sendEvent in the main thread and the detached threads that *)
(* run tcpSend, one for each line of the access log.                       *)
(*                                                                         *)
(* Lines are numbered in the order of the calls of sendEvent; that a line  *)
(* fits BUF_SIZE bytes is assumed, that the URL does is not.  The name     *)
(* service and the log host are external.                                  *)
(***************************************************************************)
EXTENDS Integers, Sequences

CONSTANTS
  MaxEvents,    \* bound on the calls of sendEvent
  Blocks,       \* blocks malloc may give to a struct TCP_Message
  NoBlock,      \* no block
  StreamCounts, \* how many SOCK_STREAM addresses the log host may have
  logHost,      \* is a log host configured (-l and -L)?
  eventHost     \* is an event host configured (-e)?

ASSUME EventAssumption ==
  /\ MaxEvents \in Nat
  /\ NoBlock \notin Blocks
  /\ StreamCounts \subseteq Nat
  /\ logHost \in BOOLEAN /\ eventHost \in BOOLEAN

VARIABLES
  main,      \* the place of the main thread: "call" before sendEvent, "http"
             \* in it, when the line was logged and the request is to follow
  events,    \* calls of sendEvent so far
  heap,      \* [Blocks -> line]: the line a block holds, 0 if it is free
  thread,    \* [line -> record]: the thread that sends it
  sent,      \* the lines given to a connection, in this order
  reported,  \* the lines for which "error send" was logged
  requests,  \* the lines whose HTTP request was started
  killed     \* the process died

vars == <<main, events, heap, thread, sent, reported, requests, killed>>

Line == 1 .. MaxEvents
Thread ==
  [pc : {"none", "resolve", "address", "finish", "end"},
   msg : Blocks \cup {NoBlock},
   left : Nat,          \* addresses that were not tried yet
   ret : {-2, -1, 0, 1}] \* ret of tcpSend, 1 for what send returned
NoThread == [pc |-> "none", msg |-> NoBlock, left |-> 0, ret |-> -1]

Init ==
  /\ main = "call" /\ events = 0
  /\ heap = [b \in Blocks |-> 0]
  /\ thread = [t \in Line |-> NoThread]
  /\ sent = <<>> /\ reported = {} /\ requests = {}
  /\ killed = FALSE

-----------------------------------------------------------------------------
(* The main thread. *)

(* Mutant: one static struct TCP_Message for all lines. *)
malloc_static == {CHOOSE b \in Blocks : TRUE}

malloc == {b \in Blocks : heap[b] = 0}

(* The thread takes the message over.                                      *)
ThreadCreated(line, b) ==
  /\ thread' = [thread EXCEPT ![line] = [NoThread EXCEPT !.pc = "resolve", !.msg = b]]
  /\ UNCHANGED killed

(* pthread_create fails, which goes unnoticed: nobody owns the message, and *)
(* pthread_detach gets an uninitialised thread id.                         *)
ThreadRefused ==
  /\ UNCHANGED thread
  /\ killed' \in BOOLEAN

(* malloc returns a null pointer, through which the line is written.       *)
NoMemory ==
  /\ killed' = TRUE
  /\ UNCHANGED <<heap, thread>>

remotePrintf(line) ==
  \/ \E b \in malloc :
       /\ heap' = [heap EXCEPT ![b] = line]
       /\ ThreadCreated(line, b) \/ ThreadRefused
  \/ NoMemory

(* LPRINT in the middle of sendEvent; the request follows unless the URL   *)
(* of the event does not fit cmdBuf.                                       *)
sendEvent ==
  /\ ~killed /\ main = "call" /\ events < MaxEvents
  /\ events' = events + 1
  /\ main' \in IF eventHost THEN {"call", "http"} ELSE {"call"}
  /\ IF logHost THEN remotePrintf(events + 1) ELSE UNCHANGED <<heap, thread, killed>>
  /\ UNCHANGED <<sent, reported, requests>>

(* The URL is too long before anything is logged.                          *)
Overflow ==
  /\ ~killed /\ main = "call" /\ events < MaxEvents /\ eventHost
  /\ events' = events + 1
  /\ UNCHANGED <<main, heap, thread, sent, reported, requests, killed>>

(* eventNames has no entry for EVENT_REMOTE_CTRL: what lies behind its end  *)
(* is taken for a string.  If it can be read, any text may come of it, and *)
(* the call goes on as another one does.                                   *)
NoEventName ==
  /\ ~killed /\ main = "call" /\ events < MaxEvents /\ eventHost
  /\ events' = events + 1
  /\ killed' = TRUE
  /\ UNCHANGED <<main, heap, thread, sent, reported, requests>>

(* system("wget ... &") returns when the request runs in the background.   *)
HttpRequest ==
  /\ ~killed /\ main = "http"
  /\ requests' = requests \cup {events}
  /\ main' = "call"
  /\ UNCHANGED <<events, heap, thread, sent, reported, killed>>

(* Mutant: the threads are joined instead of detached. *)
Main_joins ==
  /\ \A t \in Line : thread[t].pc \in {"none", "end"}
  /\ sendEvent \/ Overflow \/ NoEventName \/ HttpRequest

Main == sendEvent \/ Overflow \/ NoEventName \/ HttpRequest

-----------------------------------------------------------------------------
(* tcpSend in thread t. *)
At(t, place) == ~killed /\ thread[t].pc = place

Resolve(t) ==
  /\ At(t, "resolve")
  /\ \E k \in StreamCounts :
       thread' = [thread EXCEPT ![t].pc = "address", ![t].left = k, ![t].ret = 0]
  /\ UNCHANGED <<main, events, heap, sent, reported, requests, killed>>

(* getaddrinfo fails and leaves netInfo as it is: uninitialised.  If it    *)
(* happens not to be null, freeaddrinfo frees what it points to.           *)
ResolveFails(t) ==
  /\ At(t, "resolve")
  /\ \/ thread' = [thread EXCEPT ![t].pc = "finish", ![t].ret = -1] /\ UNCHANGED killed
     \/ killed' = TRUE /\ UNCHANGED thread
  /\ UNCHANGED <<main, events, heap, sent, reported, requests>>

(* Mutant: the result of getaddrinfo is left standing. *)
FailedRet_stale(t) == thread[t].ret

FailedRet(t) == -2

(* Mutant: the list is followed beyond its end. *)
AddressFails_beyond(t) ==
  /\ At(t, "address")
  /\ thread' = [thread EXCEPT ![t].left = @ - 1, ![t].ret = FailedRet(t)]
  /\ UNCHANGED <<main, events, heap, sent, reported, requests, killed>>

(* socket, connect or send fails: the next address is tried.               *)
AddressFails(t) ==
  /\ At(t, "address") /\ thread[t].left > 0
  /\ thread' = [thread EXCEPT ![t].left = @ - 1, ![t].ret = FailedRet(t)]
  /\ UNCHANGED <<main, events, heap, sent, reported, requests, killed>>

(* Mutant: no break after the line was sent. *)
AfterSend_no_break == "address"

AfterSend == "finish"

AddressWorks(t) ==
  /\ At(t, "address") /\ thread[t].left > 0
  /\ sent' = Append(sent, heap[thread[t].msg])
  /\ thread' = [thread EXCEPT ![t].pc = AfterSend, ![t].left = @ - 1, ![t].ret = 1]
  /\ UNCHANGED <<main, events, heap, reported, requests, killed>>

(* send to a connection the log host has closed raises SIGPIPE, which      *)
(* nobody handles.                                                         *)
BrokenPipe(t) ==
  /\ At(t, "address") /\ thread[t].left > 0
  /\ killed' = TRUE
  /\ UNCHANGED <<main, events, heap, thread, sent, reported, requests>>

(* Mutant: the list is tried again until the line was sent. *)
NoMoreAddresses_retry(t) ==
  /\ At(t, "address") /\ thread[t].left = 0
  /\ IF thread[t].ret < 0
     THEN \E k \in StreamCounts : thread' = [thread EXCEPT ![t].left = k]
     ELSE thread' = [thread EXCEPT ![t].pc = "finish"]
  /\ UNCHANGED <<main, events, heap, sent, reported, requests, killed>>

NoMoreAddresses(t) ==
  /\ At(t, "address") /\ thread[t].left = 0
  /\ thread' = [thread EXCEPT ![t].pc = "finish"]
  /\ UNCHANGED <<main, events, heap, sent, reported, requests, killed>>

(* Mutant: the message is freed only if it was sent. *)
Freed_if_sent(t) ==
  IF thread[t].ret < 0 THEN heap ELSE [heap EXCEPT ![thread[t].msg] = 0]

Freed(t) == [heap EXCEPT ![thread[t].msg] = 0]

Finish(t) ==
  /\ At(t, "finish")
  /\ reported' = IF thread[t].ret < 0 THEN reported \cup {heap[thread[t].msg]}
                                      ELSE reported
  /\ heap' = Freed(t)
  /\ thread' = [thread EXCEPT ![t].pc = "end", ![t].msg = NoBlock]
  /\ UNCHANGED <<main, events, sent, requests, killed>>

tcpSend(t) ==
  \/ Resolve(t) \/ ResolveFails(t)
  \/ AddressFails(t) \/ AddressWorks(t) \/ BrokenPipe(t) \/ NoMoreAddresses(t)
  \/ Finish(t)

Next == Main \/ \E t \in Line : tcpSend(t)

Spec == Init /\ [][Next]_vars

(* Only the main thread is known to run: a thread may wait in getaddrinfo  *)
(* or connect as long as it likes.                                         *)
FairSpec == Spec /\ WF_vars(Main)

-----------------------------------------------------------------------------
(* Properties *)

(* The threads, the heap and the records of what was sent keep their types.*)
EventTypeOK ==
  /\ main \in {"call", "http"} /\ events \in 0 .. MaxEvents
  /\ heap \in [Blocks -> 0 .. MaxEvents]
  /\ thread \in [Line -> Thread]
  /\ \A k \in 1 .. Len(sent) : sent[k] \in 1 .. events
  /\ reported \subseteq 1 .. events /\ requests \subseteq 1 .. events
  /\ killed \in BOOLEAN

(* Threads that run side by side do not mix up their lines: no line is     *)
(* sent twice, whichever addresses fail and however the blocks are reused. *)
LinesOnce ==
  \A j, k \in 1 .. Len(sent) : sent[j] = sent[k] => j = k

(* A thread that has ended has sent its line or has said that it did not,  *)
(* and not both.  This is all the log promises: a line whose thread could  *)
(* not be created is neither sent nor reported.                            *)
LostIsReported ==
  \A t \in Line : thread[t].pc = "end" =>
    ((\E k \in 1 .. Len(sent) : sent[k] = t) <=> t \notin reported)

(* The message of a line whose thread could not be created stays in the    *)
(* heap for ever.                                                          *)
Running == {t \in Line : thread[t].pc \in {"resolve", "address", "finish"}}
Leaked == {b \in Blocks : heap[b] # 0 /\ thread[heap[b]].pc = "none"}

(* Apart from what leaked, the blocks in use are those of the running      *)
(* threads, one each, with the line of the thread: no message that a       *)
(* thread took over is lost, freed early, freed twice or shared, and a     *)
(* refused thread leaks the one block of its line.                         *)
MessagesOwned ==
  /\ \A t \in Running : heap[thread[t].msg] = t
  /\ \A b \in Blocks \ Leaked :
       heap[b] # 0 => heap[b] \in Running /\ thread[heap[b]].msg = b
  /\ \A b, c \in Leaked : heap[b] = heap[c] => b = c

(* No log host, however slow, keeps the main loop from going on.           *)
MainGoesOn == <>(events = MaxEvents \/ killed)

(* A thread whose calls return ends and gives its message back.            *)
ThreadsEnd ==
  \A t \in Line : WF_vars(tcpSend(t)) => (t \in Running ~> t \notin Running \/ killed)
=============================================================================
