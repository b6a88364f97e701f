------------------------ MODULE ClauseBufferProofs ------------------------
(***************************************************************************)
(* Proofs about the ClauseBuffer, for every set of addresses, clauses and  *)
(* producers.                                                              *)
(*                                                                         *)
(* IInv says where each local pointer of a call under way lies.  The       *)
(* reason behind it: the next field of an allocated node changes once,     *)
(* from NULL, so what a thread has read of a node is right until the node  *)
(* is deleted, and buffer.tail never points to a deleted one.  It gives    *)
(* what getClause relies on.  With any number of producers it holds until  *)
(* a compare-and-exchange succeeds for a producer whose tail was deleted   *)
(* since it loaded it: what that producer read of the node says nothing of *)
(* whatever its address stands for now.                                    *)
(*                                                                         *)
(* SoloInv adds what holds with one producer: buffer.tail lags only while  *)
(* that producer is between linking its node and moving buffer.tail, so    *)
(* addClause too stays on allocated nodes, is never misled, the counts     *)
(* balance and the buffer implements the FIFO queue of ClauseQueue.        *)
(***************************************************************************)
EXTENDS ClauseBuffer, SequenceTheorems, FiniteSetTheorems, TLAPS

OneProducer == \E p : Producer = {p}

Last == list[Len(list)]
Linked == {list[i] : i \in 1..Len(list)}

\* Where a producer holds a node that is not linked yet.
Adding == {"readTail", "readNext", "check", "link", "help"}

\* The list itself: linked in order, closed by NULL, no node twice, all allocated.
ListInv ==
    /\ Len(list) >= 1
    /\ list[1] = head
    /\ \A i \in 1..(Len(list) - 1) : next[list[i]] = list[i + 1]
    /\ next[Last] = NULL
    /\ \A i, j \in 1..Len(list) : list[i] = list[j] => i = j
    /\ \A i \in 1..Len(list) : list[i] \in live

\* buffer.tail is on the last node or the last but one.
TailInv == tail = Last \/ (Len(list) >= 2 /\ tail = list[Len(list) - 1])

\* The node of addClause is its own until it is linked.
NodeInv(p) ==
    ppc[p] \in Adding =>
        /\ pnode[p] \in live
        /\ pnode[p] \notin Linked
        /\ next[pnode[p]] = NULL
        /\ \A q \in Producer : q # p /\ ppc[q] \in Adding => pnode[q] # pnode[p]

\* The pointers addClause has read: until the node at ptail is deleted it is
\* on the list, or just off it, and pnext is its successor; buffer.tail is not behind it.
ProducerInv(p) ==
    /\ ppc[p] = "help" => pnext[p] # NULL
    /\ ppc[p] = "swing" => pnode[p] \in Node
    /\ p \notin stale =>
         /\ ppc[p] \in {"readNext", "check", "link", "help", "swing"} =>
              ptail[p] \in Linked \/ (cpc = "free" /\ ptail[p] = chead)
         /\ ppc[p] \in {"check", "help"} /\ pnext[p] # NULL => next[ptail[p]] = pnext[p]
         /\ ppc[p] \in {"readNext", "check", "link"} /\ ptail[p] = Last => tail = Last
         /\ ppc[p] = "swing" => next[ptail[p]] = pnode[p]

\* The pointers of getClause.
ConsumerInv ==
    /\ cpc \in {"readTail", "readNext", "check", "help", "readClause", "moveHead"} =>
         chead = head
    /\ cpc \in {"readNext", "check"} => ctail = head \/ tail # head
    /\ cpc = "check" => \/ cnext = NULL /\ ctail = head
                        \/ Len(list) >= 2 /\ cnext = list[2]
    /\ cpc \in {"help", "readClause", "moveHead"} => Len(list) >= 2 /\ cnext = list[2]
    /\ cpc = "help" => ctail = head
    /\ cpc \in {"readClause", "moveHead"} => tail # head
    /\ cpc = "free" =>
         /\ chead \in live
         /\ chead \notin Linked
         /\ next[chead] # NULL
         /\ \A p \in Producer : ppc[p] \in Adding => chead # pnode[p]

IInv ==
    /\ TypeOK
    /\ ListInv
    /\ TailInv
    /\ \A p \in Producer : NodeInv(p) /\ ProducerInv(p)
    /\ ConsumerInv
    /\ misled = FALSE

-----------------------------------------------------------------------------
(* The invariant holds initially, and each action preserves it.  The two   *)
(* actions that change the list, Link and MoveHead, come last.             *)

\* The constructor: one node, the dummy.
LEMMA InitInv == Init => IInv
<1> SUFFICES ASSUME NEW dummy \in Node,
                    Init!(dummy)
             PROVE  IInv
  BY DEF Init
<1>1. list \in Seq(Node) /\ Len(list) = 1 /\ list[1] = dummy
  OBVIOUS
<1>2. batch \in BOOLEAN /\ misled \in BOOLEAN /\ stale \in SUBSET Producer
  OBVIOUS
<1>3. TypeOK
  BY <1>1, <1>2 DEF TypeOK, Pointer, PLocation, CLocation
<1>4. ListInv /\ TailInv
  BY <1>1 DEF ListInv, TailInv, Last
<1>5. ConsumerInv /\ \A p \in Producer : NodeInv(p) /\ ProducerInv(p)
  BY DEF ConsumerInv, NodeInv, ProducerInv, Adding
<1> QED
  BY <1>3, <1>4, <1>5 DEF IInv

\* getClause is called.
LEMMA CallGetClauseInv == ASSUME IInv, CallGetClause PROVE IInv'
<1>1. batch' \in BOOLEAN
  BY DEF CallGetClause
<1>2. TypeOK'
  BY <1>1 DEF IInv, TypeOK, CallGetClause, buffer, producers, history, CLocation
<1>3. ConsumerInv'
  BY DEF CallGetClause, ConsumerInv
<1>4. ListInv' /\ TailInv' /\ (\A p \in Producer : NodeInv(p)' /\ ProducerInv(p)')
  BY DEF CallGetClause, IInv, ListInv, TailInv, NodeInv, ProducerInv, Last, Linked, buffer, producers, history
<1>5. misled' = FALSE
  BY DEF IInv, CallGetClause, producers, history
<1> QED
  BY <1>2, <1>3, <1>4, <1>5 DEF IInv

\* getClause or getClauses returns.
LEMMA ReturnInv ==
    ASSUME IInv, cpc # "free", ReturnFromGet, UNCHANGED <<buffer, producers>> PROVE IInv'
<1>1. TypeOK'
  <2>1. batch' \in BOOLEAN
    BY DEF ReturnFromGet
  <2> QED
    BY <2>1 DEF IInv, TypeOK, ReturnFromGet, buffer, producers, history, Pointer, CLocation
<1>2. ConsumerInv'
  BY DEF ReturnFromGet, ConsumerInv
<1>3. ListInv' /\ TailInv' /\ (\A p \in Producer : NodeInv(p)' /\ ProducerInv(p)')
  BY DEF IInv, ListInv, TailInv, NodeInv, ProducerInv, Last, Linked, buffer, producers, history
<1>4. misled' = FALSE
  BY DEF IInv, producers, history
<1> QED
  BY <1>2, <1>1, <1>3, <1>4 DEF IInv

\* getClauses is called.
LEMMA CallGetClausesInv == ASSUME IInv, CallGetClauses PROVE IInv'
  BY NullIsNoNode DEF IInv, TypeOK, ListInv, TailInv, NodeInv, ProducerInv, ConsumerInv, Adding,
     Last, Linked, Pointer, 
     CallGetClauses, CLocation, buffer, producers, history, locals

\* head = buffer.head
LEMMA CReadHeadInv == ASSUME IInv, CReadHead PROVE IInv'
  BY NullIsNoNode DEF IInv, TypeOK, ListInv, TailInv, NodeInv, ProducerInv, ConsumerInv, Adding,
     Last, Linked, Pointer, 
     CReadHead, CLocation, buffer, producers, history, locals

\* tail = buffer.tail: if it is not the head then, it never is again.
LEMMA CReadTailInv == ASSUME IInv, CReadTail PROVE IInv'
  BY NullIsNoNode DEF IInv, TypeOK, ListInv, TailInv, NodeInv, ProducerInv, ConsumerInv, Adding,
     Last, Linked, Pointer, 
     CReadTail, CLocation, buffer, producers, history, locals

\* next = head->next: NULL only if the head was the tail as well.
LEMMA CReadNextInv == ASSUME IInv, CReadNext PROVE IInv'
  BY NullIsNoNode DEF IInv, TypeOK, ListInv, TailInv, NodeInv, ProducerInv, ConsumerInv, Adding,
     Last, Linked, Pointer, 
     CReadNext, NextRead, CLocation, buffer, producers, history, locals

\* The tests of getClause.
LEMMA CCheckInv == ASSUME IInv, CCheck PROVE IInv'
  BY NullIsNoNode DEF IInv, TypeOK, ListInv, TailInv, NodeInv, ProducerInv, ConsumerInv, Adding,
     Last, Linked, Pointer, 
     CCheck, CLocation, buffer, producers, history, locals

\* getClause moves a lagging buffer.tail.
LEMMA CHelpInv == ASSUME IInv, CHelp PROVE IInv'
  BY NullIsNoNode DEF IInv, TypeOK, ListInv, TailInv, NodeInv, ProducerInv, ConsumerInv, Adding,
     Last, Linked, Pointer, 
     CHelp, CLocation, buffer, producers, history, locals

\* *clause = next->clause
LEMMA ReadClauseInv == ASSUME IInv, ReadClause PROVE IInv'
  BY NullIsNoNode DEF IInv, TypeOK, ListInv, TailInv, NodeInv, ProducerInv, ConsumerInv, Adding,
     Last, Linked, Pointer, 
     ReadClause, CLocation, buffer, producers, history, locals

\* delete head: it is off the list and no producer's own.
LEMMA FreeInv == ASSUME IInv, Free PROVE IInv'
  BY NullIsNoNode DEF IInv, TypeOK, ListInv, TailInv, NodeInv, ProducerInv, ConsumerInv, Adding,
     Last, Linked, Pointer, 
     Free, CLocation, buffer, producers, history, locals

\* buffer.size--
LEMMA UncountInv == ASSUME IInv, Uncount PROVE IInv'
  BY NullIsNoNode DEF IInv, TypeOK, ListInv, TailInv, NodeInv, ProducerInv, ConsumerInv, Adding,
     Last, Linked, Pointer, 
     Uncount, CLocation, buffer, producers, history, locals

\* getClauses stores the clause.
LEMMA PushBackInv == ASSUME IInv, PushBack PROVE IInv'
  BY NullIsNoNode DEF IInv, TypeOK, ListInv, TailInv, NodeInv, ProducerInv, ConsumerInv, Adding,
     Last, Linked, Pointer, 
     PushBack, CLocation, buffer, producers, history, locals

\* new ListElement: a node that is not allocated is on no list.
LEMMA CallInv == ASSUME IInv, NEW p \in Producer, Call(p) PROVE IInv'
  BY NullIsNoNode DEF IInv, TypeOK, ListInv, TailInv, NodeInv, ProducerInv, ConsumerInv, Adding,
     Last, Linked, Pointer, 
     Call, Allocatable, PLocation, history, consumer, locals

\* tail = buffer.tail
LEMMA PReadTailInv == ASSUME IInv, NEW p \in Producer, PReadTail(p) PROVE IInv'
  BY NullIsNoNode DEF IInv, TypeOK, ListInv, TailInv, NodeInv, ProducerInv, ConsumerInv, Adding,
     Last, Linked, Pointer, 
     PReadTail, PLocation, buffer, history, consumer, locals

\* next = tail->next, whatever it is when tail is deleted
LEMMA PReadNextInv == ASSUME IInv, NEW p \in Producer, PReadNext(p) PROVE IInv'
  BY NullIsNoNode DEF IInv, TypeOK, ListInv, TailInv, NodeInv, ProducerInv, ConsumerInv, Adding,
     Last, Linked, Pointer, 
     PReadNext, NextRead, PLocation, buffer, history, consumer, locals

\* The tests of addClause.
LEMMA PCheckInv == ASSUME IInv, NEW p \in Producer, PCheck(p) PROVE IInv'
  BY NullIsNoNode DEF IInv, TypeOK, ListInv, TailInv, NodeInv, ProducerInv, ConsumerInv, Adding,
     Last, Linked, Pointer, 
     PCheck, PLocation, buffer, history, consumer, locals

\* A producer moves a lagging buffer.tail to the node it has read.
LEMMA PHelpInv == ASSUME IInv, NEW p \in Producer, PHelp(p), ~misled' PROVE IInv'
<1>1. misled' = FALSE /\ (tail = ptail[p] => p \notin stale)
  BY DEF IInv, PHelp, MoveTail, Exchanged
<1>2. tail' = IF tail = ptail[p] THEN pnext[p] ELSE tail
  BY DEF PHelp, MoveTail
<1>3. /\ ppc[p] = "help" /\ ppc' = [ppc EXCEPT ![p] = "readTail"]
      /\ UNCHANGED <<head, size, next, clause, live, list, pnode, ptail, pnext, stale, cpc,
                     batch, chead, ctail, cnext, ccls, nClauses, nClausesGet>>
  BY DEF PHelp, consumer, locals
<1>4. tail' \in Node /\ TailInv'
  BY <1>1, <1>2, <1>3, NullIsNoNode DEF IInv, TypeOK, ListInv, TailInv, ProducerInv, ConsumerInv,
     Last, Linked, Pointer
<1>5. TypeOK'
  <2>1. misled' \in BOOLEAN
    BY <1>1
  <2> QED
    BY <1>3, <1>4, <2>1 DEF IInv, TypeOK, PLocation
<1>6. ListInv' /\ \A q \in Producer : NodeInv(q)'
  BY <1>3 DEF IInv, TypeOK, ListInv, NodeInv, Adding, Last, Linked
<1>7. ASSUME NEW q \in Producer PROVE ProducerInv(q)'
  BY <1>1, <1>2, <1>3, NullIsNoNode DEF IInv, TypeOK, ListInv, TailInv, ProducerInv, ConsumerInv,
     Last, Linked, Pointer
<1>8. ConsumerInv'
  BY <1>1, <1>2, <1>3, NullIsNoNode DEF IInv, TypeOK, ListInv, TailInv, ProducerInv, ConsumerInv,
     Adding, Last, Linked
<1> QED
  BY <1>1, <1>4, <1>5, <1>6, <1>7, <1>8 DEF IInv

\* buffer.tail moves to the new node unless another thread moved it.
LEMMA SwingInv == ASSUME IInv, NEW p \in Producer, Swing(p), ~misled' PROVE IInv'
<1>1. misled' = FALSE /\ (tail = ptail[p] => p \notin stale)
  BY DEF IInv, Swing, MoveTail, Exchanged
<1>2. tail' = IF tail = ptail[p] THEN pnode[p] ELSE tail
  BY DEF Swing, MoveTail
<1>3. /\ ppc[p] = "swing" /\ ppc' = [ppc EXCEPT ![p] = "count"]
      /\ UNCHANGED <<head, size, next, clause, live, list, pnode, ptail, pnext, stale, cpc,
                     batch, chead, ctail, cnext, ccls, nClauses, nClausesGet>>
  BY DEF Swing, consumer, locals
<1>4. tail' \in Node /\ TailInv'
  BY <1>1, <1>2, <1>3, NullIsNoNode DEF IInv, TypeOK, ListInv, TailInv, ProducerInv, ConsumerInv,
     Last, Linked, Pointer
<1>5. TypeOK'
  <2>1. misled' \in BOOLEAN
    BY <1>1
  <2> QED
    BY <1>3, <1>4, <2>1 DEF IInv, TypeOK, PLocation
<1>6. ListInv' /\ \A q \in Producer : NodeInv(q)'
  BY <1>3 DEF IInv, TypeOK, ListInv, NodeInv, Adding, Last, Linked
<1>7. ASSUME NEW q \in Producer PROVE ProducerInv(q)'
  BY <1>1, <1>2, <1>3, NullIsNoNode DEF IInv, TypeOK, ListInv, TailInv, ProducerInv, ConsumerInv,
     Last, Linked, Pointer
<1>8. ConsumerInv'
  BY <1>1, <1>2, <1>3, NullIsNoNode DEF IInv, TypeOK, ListInv, TailInv, ProducerInv, ConsumerInv,
     Adding, Last, Linked
<1> QED
  BY <1>1, <1>4, <1>5, <1>6, <1>7, <1>8 DEF IInv

\* buffer.size++
LEMMA CountInv == ASSUME IInv, NEW p \in Producer, Count(p) PROVE IInv'
  BY NullIsNoNode DEF IInv, TypeOK, ListInv, TailInv, NodeInv, ProducerInv, ConsumerInv, Adding,
     Last, Linked, Pointer, 
     Count, PLocation, buffer, history, consumer, locals

\* What a successful compare-and-exchange of tail->next does to the list.
Appended(p) ==
    /\ pnode[p] \in live /\ pnode[p] \notin Linked /\ next[pnode[p]] = NULL
    /\ pnode[p] \in Node
    /\ Last \in Node /\ Last \in Linked /\ next[Last] = NULL
    /\ list \in Seq(Node) /\ Len(list) \in Nat /\ Len(list) >= 1
    /\ ptail[p] = Last /\ tail = Last
    /\ next' = [next EXCEPT ![Last] = pnode[p]]
    /\ list' = Append(list, pnode[p])
    /\ ppc' = [ppc EXCEPT ![p] = "swing"]
    /\ p \notin stale /\ misled' = FALSE
    /\ UNCHANGED <<head, tail, size, clause, live, pnode, ptail, pnext, stale, consumer>>
    /\ list' \in Seq(Node) /\ Len(list') = Len(list) + 1
    /\ \A i \in 1..Len(list) : list'[i] = list[i]
    /\ list'[Len(list')] = pnode[p]
    /\ Last' = pnode[p] /\ Last = list'[Len(list)]
    /\ Linked' = Linked \cup {pnode[p]}

\* What the compare-and-exchange of tail->next does when it succeeds.
Links(p) ==
    /\ Link(p)
    /\ NULL \in NextRead(ptail[p])
    /\ next' = [next EXCEPT ![ptail[p]] = pnode[p]]
    /\ Exchanged(p)
    /\ list' = IF misled' THEN list ELSE Append(list, pnode[p])
    /\ ppc' = [ppc EXCEPT ![p] = "swing"]
    /\ UNCHANGED pnext

\* A compare-and-exchange that is not misled appends the new node to the list:
\* a node of the list, or just off it, whose next is NULL is the last.
LEMMA LinkAppends ==
    ASSUME IInv, NEW p \in Producer, Links(p), ~misled' PROVE Appended(p)
<1> DEFINE n == pnode[p]
<1>1. /\ n \in live /\ n \notin Linked /\ next[n] = NULL
      /\ n \in Node
      /\ Last \in Node /\ Last \in Linked /\ list \in Seq(Node) /\ Len(list) \in Nat
      /\ Len(list) >= 1
      /\ next[Last] = NULL
  BY DEF IInv, ListInv, NodeInv, Links, Link, TypeOK, Linked, Last, Adding
<1>2. p \notin stale /\ ptail[p] = Last
  <2>1. p \notin stale
    BY DEF Links, Exchanged
  <2>2. ptail[p] \in Linked \/ (cpc = "free" /\ ptail[p] = chead)
    BY <2>1 DEF IInv, ProducerInv, Links, Link
  <2>3. ptail[p] \in live /\ next[ptail[p]] = NULL
    BY <2>2 DEF IInv, ListInv, Linked, ConsumerInv, Links, NextRead
  <2>4. ptail[p] \in Linked
    BY <2>2, <2>3 DEF IInv, ConsumerInv
  <2> QED
    BY <2>1, <2>3, <2>4, <1>1, NullIsNoNode DEF IInv, TypeOK, ListInv, Linked, Last
<1>3. tail = Last
  BY <1>2 DEF IInv, ProducerInv, Links, Link
<1>4. /\ next' = [next EXCEPT ![Last] = n]
      /\ misled' = FALSE
      /\ list' = Append(list, n)
      /\ ppc' = [ppc EXCEPT ![p] = "swing"]
      /\ UNCHANGED <<head, tail, size, clause, live, pnode, ptail, pnext, stale, consumer>>
  BY <1>2 DEF Links, Link, Exchanged, IInv
<1>5. /\ list' \in Seq(Node)
      /\ Len(list') = Len(list) + 1
      /\ \A i \in 1..Len(list) : list'[i] = list[i]
      /\ list'[Len(list')] = n
  BY <1>1, <1>4, AppendProperties
<1>6. Last' = n /\ Last = list'[Len(list)] /\ Linked' = Linked \cup {n}
  BY <1>1, <1>5 DEF Last, Linked
<1> QED
  BY <1>1, <1>2, <1>3, <1>4, <1>5, <1>6 DEF Appended

\* addClause links its node, or finds that another producer was faster.
LEMMA LinkInv == ASSUME IInv, NEW p \in Producer, Link(p), ~misled' PROVE IInv'
<1>1. CASE ~Links(p)
  <2>1. /\ \E n \in NextRead(ptail[p]) \ {NULL} : pnext' = [pnext EXCEPT ![p] = n]
        /\ ppc' = [ppc EXCEPT ![p] = "readTail"]
        /\ UNCHANGED <<head, tail, size, next, clause, live, list, misled, pnode, ptail, stale,
                       consumer>>
    BY <1>1 DEF Links, Link
  <2>2. \E n \in Pointer : pnext' = [pnext EXCEPT ![p] = n]
    BY <2>1 DEF NextRead, IInv, TypeOK
  <2> QED
    BY <2>1, <2>2, NullIsNoNode DEF IInv, TypeOK, ListInv, TailInv, NodeInv, ProducerInv,
       ConsumerInv, Adding, Last, Linked, Pointer, Link, PLocation, consumer, locals
<1>2. CASE Links(p)
  <2>1. Appended(p)
    BY <1>2, LinkAppends
  <2>2. TypeOK'
    <3>1. misled' \in BOOLEAN
      BY <2>1 DEF Appended
    <3> QED
      BY <2>1, <3>1 DEF Appended, IInv, TypeOK, consumer, locals, PLocation, Pointer
  <2>3. ListInv'
    <3>1. \A i \in 1..(Len(list') - 1) : next'[list'[i]] = list'[i + 1]
      BY <2>1 DEF Appended, IInv, ListInv, TypeOK, Last
    <3>2. next'[Last'] = NULL
      BY <2>1 DEF Appended, IInv, TypeOK
    <3>3. \A i, j \in 1..Len(list') : list'[i] = list'[j] => i = j
      BY <2>1 DEF Appended, IInv, ListInv, Linked
    <3>4. \A i \in 1..Len(list') : list'[i] \in live'
      BY <2>1 DEF Appended, IInv, ListInv
    <3> QED
      BY <2>1, <3>1, <3>2, <3>3, <3>4 DEF Appended, IInv, ListInv
  <2>4. TailInv'
    BY <2>1 DEF Appended, TailInv, IInv, TypeOK
  <2>5. ASSUME NEW q \in Producer PROVE NodeInv(q)' /\ ProducerInv(q)'
    <3>1. NodeInv(q)'
      BY <2>1 DEF Appended, NodeInv, IInv, TypeOK, Link, Adding
    <3>2. q \notin stale /\ ppc[q] \in {"readNext", "check", "link", "help", "swing"}
            => ptail[q] # pnode[p]
      BY <2>1 DEF Appended, ProducerInv, IInv, ConsumerInv, Link, Adding
    <3>3. ProducerInv(q)'
      BY <2>1, <3>2, NullIsNoNode DEF Appended, ProducerInv, IInv, TypeOK, consumer, locals
    <3> QED
      BY <3>1, <3>3
  <2>6. ConsumerInv'
    <3>1. cpc = "free" => chead # pnode[p]
      BY DEF IInv, ConsumerInv, Link, Adding
    <3> QED
      BY <2>1, <3>1, NullIsNoNode DEF Appended, IInv, ConsumerInv, TypeOK, Adding, consumer, locals
  <2> QED
    BY <2>1, <2>2, <2>3, <2>4, <2>5, <2>6 DEF IInv, Appended
<1> QED
  BY <1>1, <1>2

\* What a successful compare-and-exchange of buffer.head does to the list.
Shortened ==
    /\ head = chead
    /\ Len(list) >= 2 /\ cnext = list[2]
    /\ head' = cnext
    /\ list' = Tail(list)
    /\ cpc' = "free"
    /\ UNCHANGED <<tail, size, next, clause, live, ppc, pnode, ptail, pnext, stale, misled,
                   chead, ccls>>
    /\ list \in Seq(Node) /\ list' \in Seq(Node)
    /\ Len(list') = Len(list) - 1
    /\ \A i \in 1..Len(list') : list'[i] = list[i + 1]
    /\ Last' = Last
    /\ chead = list[1] /\ chead \notin Linked'
    /\ \A n : n \in Linked <=> n \in Linked' \/ n = chead

\* The compare-and-exchange on buffer.head succeeds, the consumer being alone,
\* and takes the first node off the list.
LEMMA MoveHeadShortens == ASSUME IInv, MoveHead PROVE Shortened
<1>1. /\ head = chead
      /\ Len(list) >= 2 /\ cnext = list[2]
      /\ head' = cnext
      /\ list' = Tail(list)
      /\ cpc' = "free"
      /\ UNCHANGED <<tail, size, next, clause, live, ppc, pnode, ptail, pnext, stale, misled,
                   chead, ccls>>
  BY DEF IInv, ConsumerInv, MoveHead, producers, history, locals
<1>2. /\ list \in Seq(Node)
      /\ list' \in Seq(Node)
      /\ Len(list') = Len(list) - 1
      /\ \A i \in 1..Len(list') : list'[i] = list[i + 1]
  BY <1>1, HeadTailProperties, EmptySeq DEF IInv, TypeOK
<1>3. Last' = Last
  BY <1>1, <1>2 DEF Last
<1>4. chead = list[1] /\ chead \notin Linked' /\ chead \in Linked
  BY <1>1, <1>2 DEF Linked, IInv, ListInv
<1>5. \A n : n \in Linked' => n \in Linked
  BY <1>1, <1>2 DEF Linked
<1>6. ASSUME NEW i \in 1..Len(list) PROVE list[i] \in Linked' \/ list[i] = chead
  <2>1. CASE i = 1
    BY <2>1, <1>4
  <2>2. CASE i # 1
    <3>1. i - 1 \in 1..Len(list') /\ list'[i - 1] = list[i]
      BY <2>2, <1>1, <1>2
    <3> QED
      BY <3>1 DEF Linked
  <2> QED
    BY <2>1, <2>2
<1> QED
  BY <1>1, <1>2, <1>3, <1>4, <1>5, <1>6 DEF Linked, Shortened

\* The first node leaves the list; it is not the tail.
LEMMA MoveHeadInv == ASSUME IInv, MoveHead PROVE IInv'
<1>1. Shortened
  BY MoveHeadShortens
<1>2. TypeOK'
  BY <1>1 DEF Shortened, IInv, TypeOK, MoveHead, producers, history, locals, CLocation, Pointer
<1>3. ListInv'
  BY <1>1 DEF Shortened, IInv, ListInv
<1>4. TailInv'
  <2>1. tail # list[1]
    BY <1>1 DEF Shortened, IInv, ConsumerInv, ListInv, MoveHead
  <2>2. CASE tail = Last
    BY <2>2, <1>1 DEF Shortened, TailInv, IInv
  <2>3. CASE tail = list[Len(list) - 1]
    BY <2>1, <2>3, <1>1 DEF Shortened, TailInv, IInv
  <2> QED
    BY <2>2, <2>3 DEF TailInv, IInv
<1>5. ASSUME NEW p \in Producer PROVE NodeInv(p)' /\ ProducerInv(p)'
  <2>1. NodeInv(p) /\ ProducerInv(p) /\ cpc # "free"
    BY DEF IInv, MoveHead
  <2> QED
    BY <1>1, <2>1 DEF Shortened, NodeInv, ProducerInv
<1>6. ConsumerInv'
  <2>1. chead \in live /\ chead \in Linked /\ next[chead] # NULL
    BY <1>1, NullIsNoNode DEF Shortened, IInv, ListInv, Linked
  <2> QED
    BY <1>1, <2>1 DEF Shortened, IInv, ConsumerInv, NodeInv
<1>7. misled' = FALSE
  BY <1>1 DEF Shortened, IInv
<1> QED
  BY <1>2, <1>3, <1>4, <1>5, <1>6, <1>7 DEF IInv

\* Every step that misleads nobody preserves IInv, however many producers there are.
LEMMA Inductive == ASSUME IInv, [Next]_vars, ~misled' PROVE IInv'
<1>1. ASSUME NEW p \in Producer, Call(p) \/ AddClause(p) PROVE IInv'
  BY <1>1, CallInv, PReadTailInv, PReadNextInv, PCheckInv, LinkInv, PHelpInv, SwingInv, CountInv
     DEF AddClause
<1>2. CASE CallGetClauses \/ CallGetClause
  BY <1>2, CallGetClausesInv, CallGetClauseInv
<1>3. CASE ReturnFalse \/ Drop \/ ReturnTrue
  BY <1>3, ReturnInv DEF ReturnFalse, Drop, ReturnTrue
<1>4. CASE CReadHead \/ CReadTail \/ CReadNext \/ CCheck \/ CHelp \/ ReadClause
           \/ MoveHead \/ Free \/ Uncount \/ PushBack
  BY <1>4, CReadHeadInv, CReadTailInv, CReadNextInv, CCheckInv, CHelpInv, ReadClauseInv,
     MoveHeadInv, FreeInv, UncountInv, PushBackInv
<1>5. CASE UNCHANGED vars
  <2>1. TypeOK'
    BY <1>5 DEF vars, IInv, TypeOK
  <2> QED
    BY <1>5, <2>1 DEF vars, IInv, ListInv, TailInv, NodeInv, ProducerInv, ConsumerInv, Last, Linked
<1> QED
  BY <1>1, <1>2, <1>3, <1>4, <1>5 DEF Next, GetClause

-----------------------------------------------------------------------------
\* With any number of producers IInv holds as long as no compare-and-exchange
\* of addClause is misled by an address deleted since it was loaded.
THEOREM BufferInvariant == Spec => [](~misled => IInv)
<1>1. Init => (~misled => IInv)
  BY InitInv
<1>2. (~misled => IInv) /\ [Next]_vars => (~misled => IInv)'
  <2> SUFFICES ASSUME ~misled => IInv, [Next]_vars, ~misled' PROVE IInv'
    OBVIOUS
  <2>1. ~misled
    <3>1. CASE UNCHANGED vars
      BY <3>1 DEF vars
    <3>2. ASSUME NEW p \in Producer, Call(p) \/ AddClause(p) PROVE ~misled
      BY <3>2 DEF AddClause, Call, PReadTail, PReadNext, PCheck, Link, PHelp, Swing, Count,
         MoveTail, Exchanged, history
    <3>3. CASE CallGetClauses \/ CallGetClause \/ GetClause
      BY <3>3 DEF CallGetClauses, CallGetClause, GetClause, CReadHead, CReadTail, CReadNext,
         CCheck, ReturnFalse, CHelp, ReadClause, MoveHead, Free, Uncount, PushBack, Drop,
         ReturnTrue, producers, history
    <3> QED
      BY <3>1, <3>2, <3>3 DEF Next
  <2> QED
    BY <2>1, Inductive
<1> QED
  BY <1>1, <1>2, PTL DEF Spec

\* What IInv gives the consumer.
LEMMA InvIsSafe == ASSUME IInv PROVE ConsumerUsesLiveNodes /\ ListIsConnected
<1>1. ConsumerUsesLiveNodes
  BY DEF IInv, ListInv, ConsumerInv, ConsumerUsesLiveNodes
<1>2. ListIsConnected
  BY DEF IInv, TypeOK, ListInv, TailInv, ListIsConnected, Last
<1> QED
  BY <1>1, <1>2

\* However many sharers add to the buffer, and whatever addresses the allocator
\* hands out again, getClause never reads a node it has deleted and deletes no
\* node twice, and the list stays in one piece, until a compare-and-exchange
\* succeeds on an address deleted since its producer loaded it.
THEOREM ConsumerSafe == Spec => []ConsumerIsSafe
<1>1. (~misled => IInv) => ConsumerIsSafe
  BY InvIsSafe DEF ConsumerIsSafe
<1> QED
  BY <1>1, BufferInvariant, PTL

-----------------------------------------------------------------------------
(* One producer. *)

\* The nodes allocated, one by one.
Accounted(p, n) ==
    n \in Linked \/ (ppc[p] \in Adding /\ n = pnode[p]) \/ (cpc = "free" /\ n = chead)

\* What the steps not yet counted make of buffer.size.
Uncounted(p) ==
    (IF cpc \in {"free", "uncount"} THEN 1 ELSE 0)
    - (IF ppc[p] \in {"swing", "count"} THEN 1 ELSE 0)

SoloInv(p) ==
    /\ ppc[p] # "help"
    /\ ppc[p] # "swing" => tail = Last
    /\ ppc[p] = "swing" => pnode[p] = Last /\ tail \in {ptail[p], pnode[p]}
    /\ ppc[p] \in {"readNext", "check", "link"} => ptail[p] = Last /\ p \notin stale
    /\ ppc[p] = "swing" /\ tail = ptail[p] => p \notin stale
    /\ ppc[p] \in {"check", "link"} => pnext[p] = NULL
    /\ \A n : n \in live <=> Accounted(p, n)
    /\ size = Len(list) - 1 + Uncounted(p)

\* The constructor: buffer.tail is the dummy, the only node, and nothing is counted.
LEMMA InitSolo == ASSUME NEW p, Producer = {p}, Init PROVE SoloInv(p)
<1> PICK dummy \in Node : Init!(dummy)
  BY DEF Init
<1>1. list \in Seq(Node) /\ Len(list) = 1 /\ list[1] = dummy
  OBVIOUS
<1> QED
  BY <1>1 DEF SoloInv, Accounted, Uncounted, Last, Linked, Adding

\* Where the list does not change, the producer.
LEMMA ProducerSolo ==
    ASSUME NEW p, Producer = {p}, IInv, SoloInv(p),
           Call(p) \/ PReadTail(p) \/ PReadNext(p) \/ PCheck(p) \/ PHelp(p) \/ Swing(p)
             \/ Count(p)
    PROVE  SoloInv(p)' /\ ~misled'
<1> USE NullIsNoNode DEF SoloInv, Accounted, Uncounted, Last, Linked, Adding, IInv, TypeOK,
        ListInv, Pointer, buffer, history, consumer, locals
<1>1. CASE Call(p)
  BY <1>1 DEF Call, Allocatable
<1>2. CASE PReadTail(p)
  BY <1>2 DEF PReadTail
<1>3. CASE PReadNext(p)
  BY <1>3 DEF PReadNext, NextRead
<1>4. CASE PCheck(p)
  BY <1>4 DEF PCheck
<1>5. CASE PHelp(p)
  BY <1>5 DEF PHelp
<1>6. CASE Swing(p)
  BY <1>6 DEF Swing, MoveTail, Exchanged
<1>7. CASE Count(p)
  BY <1>7 DEF Count
<1> QED
  BY <1>1, <1>2, <1>3, <1>4, <1>5, <1>6, <1>7

\* Where the list does not change, the consumer.
LEMMA ConsumerSolo ==
    ASSUME NEW p, Producer = {p}, IInv, SoloInv(p),
           CallGetClauses \/ CallGetClause \/ CReadHead \/ CReadTail \/ CReadNext \/ CCheck
             \/ ReturnFalse \/ CHelp \/ ReadClause \/ Free \/ Uncount \/ PushBack \/ Drop
             \/ ReturnTrue
    PROVE  SoloInv(p)' /\ ~misled'
<1>0. ~misled'
  BY DEF IInv, CallGetClauses, CallGetClause, CReadHead, CReadTail, CReadNext, CCheck,
     ReturnFalse, CHelp, ReadClause, Free, Uncount, PushBack, Drop, ReturnTrue, producers, history
<1> SUFFICES SoloInv(p)'
  BY <1>0
<1> USE DEF SoloInv, Accounted, Uncounted, Last, Linked, Adding, buffer, producers, history,
        locals
<1>1. CASE CallGetClauses \/ CallGetClause
  BY <1>1 DEF CallGetClauses, CallGetClause
<1>2. CASE CReadHead \/ CReadTail \/ CReadNext
  BY <1>2 DEF CReadHead, CReadTail, CReadNext
<1>3. CASE CCheck
  BY <1>3 DEF CCheck
<1>4. CASE ReturnFalse \/ Drop \/ ReturnTrue
  BY <1>4 DEF ReturnFalse, Drop, ReturnTrue, ReturnFromGet
<1>5. CASE CHelp
  BY <1>5, NullIsNoNode DEF CHelp, IInv, TypeOK, ListInv, TailInv, ConsumerInv, ProducerInv
<1>6. CASE ReadClause
  BY <1>6 DEF ReadClause
<1>7. CASE Free
  BY <1>7 DEF Free, IInv, ListInv, TailInv, ConsumerInv
<1>8. CASE Uncount
  BY <1>8 DEF Uncount, IInv, TypeOK
<1>9. CASE PushBack
  BY <1>9 DEF PushBack
<1> QED
  BY <1>1, <1>2, <1>3, <1>4, <1>5, <1>6, <1>7, <1>8, <1>9

\* The new node passes from the producer to the list, not counted yet.
LEMMA LinkSolo ==
    ASSUME NEW p, Producer = {p}, IInv, SoloInv(p), Link(p)
    PROVE  SoloInv(p)' /\ ~misled' /\ Appended(p)
<1>1. ptail[p] = Last /\ next[ptail[p]] = NULL /\ ppc[p] = "link"
  BY DEF SoloInv, IInv, ListInv, Link
<1>2. Appended(p)
  <2>1. ptail[p] \in live /\ p \notin stale
    BY <1>1 DEF SoloInv, IInv, ListInv, Last
  <2>2. Links(p) /\ ~misled'
    BY <1>1, <2>1 DEF Links, Link, NextRead, Exchanged, IInv
  <2> QED
    BY <2>2, LinkAppends
<1>3. ppc'[p] = "swing"
  BY <1>2 DEF Appended, IInv, TypeOK
<1>4. \A n : n \in live' <=> Accounted(p, n)'
  BY <1>1, <1>2, <1>3 DEF Appended, SoloInv, Accounted, Adding, consumer, locals
<1>5. size' = Len(list') - 1 + Uncounted(p)'
  BY <1>1, <1>2, <1>3 DEF Appended, SoloInv, Uncounted, IInv, TypeOK, consumer, locals
<1> QED
  BY <1>2, <1>3, <1>4, <1>5 DEF Appended, SoloInv, IInv, ListInv, NodeInv, Adding, Link

\* The first node passes from the list to the consumer, not yet uncounted.
LEMMA MoveHeadSolo ==
    ASSUME NEW p, Producer = {p}, IInv, SoloInv(p), MoveHead PROVE SoloInv(p)' /\ ~misled'
<1>1. Shortened /\ cpc = "moveHead"
  BY MoveHeadShortens DEF MoveHead
<1>2. \A n : n \in live' <=> Accounted(p, n)'
  BY <1>1 DEF Shortened, SoloInv, Accounted, Adding
<1>3. size' = Len(list') - 1 + Uncounted(p)'
  <2>1. Uncounted(p) \in Int /\ Uncounted(p)' = Uncounted(p) + 1
    BY <1>1 DEF Shortened, Uncounted
  <2>2. Len(list) \in Nat /\ Len(list') = Len(list) - 1 /\ size' = size
    BY <1>1 DEF Shortened
  <2> QED
    BY <2>1, <2>2 DEF SoloInv
<1> QED
  BY <1>1, <1>2, <1>3 DEF Shortened, SoloInv, IInv

\* Every step of a buffer with one producer preserves SoloInv, and misleads nobody.
LEMMA SoloInductive ==
    ASSUME NEW p, Producer = {p}, IInv, SoloInv(p), [Next]_vars PROVE SoloInv(p)' /\ ~misled'
<1>1. CASE UNCHANGED vars
  BY <1>1 DEF vars, IInv, SoloInv, Accounted, Uncounted, Last, Linked
<1>2. CASE Next
  BY <1>2, ProducerSolo, ConsumerSolo, LinkSolo, MoveHeadSolo DEF Next, AddClause, GetClause
<1> QED
  BY <1>1, <1>2

\* With one producer IInv and SoloInv hold at every step.
THEOREM SoloInvariant == ASSUME NEW p, Producer = {p} PROVE Spec => [](IInv /\ SoloInv(p))
<1>1. Init => IInv /\ SoloInv(p)
  BY InitInv, InitSolo
<1>2. IInv /\ SoloInv(p) /\ [Next]_vars => (IInv /\ SoloInv(p))'
  BY SoloInductive, Inductive
<1> QED
  BY <1>1, <1>2, PTL DEF Spec

\* What the buffer of a single producer promises, whichever side runs when:
\* neither side reads, links to or deletes a node already deleted, no address
\* that came back deceives addClause, and the list stays connected.
THEOREM MemorySound == ASSUME OneProducer PROVE Spec => []MemoryIsSound
<1>1. PICK p : Producer = {p}
  BY DEF OneProducer
<1>2. ASSUME IInv, SoloInv(p) PROVE ProducersUseLiveNodes
  BY <1>1, <1>2 DEF IInv, ListInv, SoloInv, ProducersUseLiveNodes, Last
<1>3. IInv /\ SoloInv(p) => MemoryIsSound
  BY <1>2, InvIsSafe DEF MemoryIsSound, IInv
<1> QED
  BY <1>1, <1>3, SoloInvariant, PTL

\* How many of the elements of {p} a function maps into S.
LEMMA CountOne ==
    ASSUME NEW p, NEW f, NEW S
    PROVE  Cardinality({q \in {p} : f[q] \in S}) = IF f[p] \in S THEN 1 ELSE 0
<1>1. CASE f[p] \in S
  <2>1. {q \in {p} : f[q] \in S} = {p}
    BY <1>1
  <2> QED
    BY <1>1, <2>1, FS_Singleton
<1>2. CASE f[p] \notin S
  <2>1. {q \in {p} : f[q] \in S} = {}
    BY <1>2
  <2> QED
    BY <1>2, <2>1, FS_EmptySet
<1> QED
  BY <1>1, <1>2

\* No node leaks, none is deleted while in use, and buffer.size is the number of
\* clauses in the list but for the additions and the removal not yet counted.
THEOREM AccountsAreRight == ASSUME OneProducer PROVE Spec => []AccountsBalance
<1>1. PICK p : Producer = {p}
  BY DEF OneProducer
<1>2. ASSUME IInv, SoloInv(p) PROVE NodesAreAccountedFor
  <2>1. DOMAIN list = 1..Len(list)
    BY <1>2 DEF IInv, TypeOK
  <2> QED
    BY <1>1, <1>2, <2>1 DEF SoloInv, Accounted, NodesAreAccountedFor, Linked, Adding
<1>3. ASSUME IInv, SoloInv(p) PROVE SizeAccounts
  <2> DEFINE uncounted == Cardinality({q \in Producer : ppc[q] \in {"swing", "count"}})
             removing == IF cpc \in {"free", "uncount"} THEN 1 ELSE 0
  <2>1. uncounted = IF ppc[p] \in {"swing", "count"} THEN 1 ELSE 0
    BY <1>1, CountOne
  <2>2. uncounted \in Int /\ removing \in Int /\ Uncounted(p) = removing - uncounted
    BY <2>1 DEF Uncounted
  <2>3. Len(list) \in Nat
    BY <1>3 DEF IInv, TypeOK
  <2> HIDE DEF uncounted, removing
  <2>4. size = Len(list) - 1 - uncounted + removing
    BY <1>3, <2>2, <2>3 DEF SoloInv
  <2> QED
    BY <2>4 DEF SizeAccounts, uncounted, removing
<1>4. IInv /\ SoloInv(p) => AccountsBalance
  BY <1>2, <1>3 DEF AccountsBalance
<1> QED
  BY <1>1, <1>4, SoloInvariant, PTL

-----------------------------------------------------------------------------
(* The buffer of a single producer implements the queue. *)

\* The clauses the threads hold: those of the list and of the nodes being added
\* are clauses, and getClause has read the one it is about to take.
ClauseInv ==
    /\ \A i \in 2..Len(list) : clause[list[i]] \in Clause
    /\ \A p \in Producer : ppc[p] \in Adding => clause[pnode[p]] \in Clause
    /\ cpc = "moveHead" => ccls = clause[cnext]

\* Every step preserves ClauseInv: only addClause writes to a node, its own.
LEMMA ClauseInductive == ASSUME IInv, ClauseInv, [Next]_vars, ~misled' PROVE ClauseInv'
<1> USE DEF ClauseInv, Adding
<1>1. ASSUME NEW p \in Producer, Call(p) PROVE ClauseInv'
  BY <1>1 DEF Call, Allocatable, IInv, TypeOK, ListInv, NodeInv, ConsumerInv, consumer, locals
<1>2. ASSUME NEW p \in Producer,
             PReadTail(p) \/ PReadNext(p) \/ PCheck(p) \/ PHelp(p) \/ Swing(p) \/ Count(p)
      PROVE  ClauseInv'
  BY <1>2 DEF IInv, TypeOK, PReadTail, PReadNext, PCheck, PHelp, Swing, Count,
     buffer, consumer, locals
<1>3. ASSUME NEW p \in Producer, Link(p) PROVE ClauseInv'
  <2>1. CASE ~Links(p)
    BY <1>3, <2>1 DEF IInv, TypeOK, Links, Link, consumer, locals
  <2>2. CASE Links(p)
    <3>1. Appended(p) /\ clause[pnode[p]] \in Clause
      BY <1>3, <2>2, LinkAppends DEF Link
    <3> QED
      BY <3>1, SMTT(40) DEF Appended, IInv, TypeOK, consumer, locals
  <2> QED
    BY <2>1, <2>2
<1>4. CASE MoveHead
  <2>1. Shortened
    BY <1>4, MoveHeadShortens
  <2> QED
    BY <2>1 DEF Shortened
<1>5. CASE CallGetClauses \/ CallGetClause \/ CReadHead \/ CReadTail \/ CReadNext \/ CCheck
           \/ CHelp \/ ReadClause \/ Free \/ Uncount \/ PushBack
  BY <1>5 DEF CallGetClauses, CallGetClause, CReadHead, CReadTail, CReadNext, CCheck,
     CHelp, ReadClause, Free, Uncount, PushBack, buffer, producers, locals
<1>6. CASE ReturnFalse \/ Drop \/ ReturnTrue
  BY <1>6 DEF ReturnFalse, Drop, ReturnTrue, ReturnFromGet, buffer, producers
<1>7. CASE UNCHANGED vars
  BY <1>7 DEF vars
<1> QED
  BY <1>1, <1>2, <1>3, <1>4, <1>5, <1>6, <1>7 DEF Next, AddClause, GetClause

\* The refinement mapping, as in the INSTANCE.
QueueOf == [i \in 1..(Len(list) - 1) |-> clause[list[i + 1]]]
AddingOf == [p \in Producer |->
               IF ppc[p] \in {"readTail", "readNext", "check", "link", "help"}
               THEN clause[pnode[p]] ELSE NULL]
AnswerOf == IF cpc = "check" /\ cnext = NULL THEN [found |-> FALSE]
            ELSE IF cpc \in {"free", "uncount", "deliver"}
            THEN [found |-> TRUE, clause |-> ccls]
            ELSE NULL

\* The constructed buffer is the empty queue.
LEMMA InitRefines == Init => Queue!Init
<1> SUFFICES ASSUME NEW dummy \in Node, Init!(dummy) PROVE Queue!Init
  BY DEF Init
<1>1. Len(list) = 1
  OBVIOUS
<1>2. QueueOf = <<>>
  BY <1>1 DEF QueueOf
<1>3. AddingOf = [p \in Producer |-> NULL] /\ AnswerOf = NULL
  BY DEF AddingOf, AnswerOf
<1> QED
  BY <1>2, <1>3 DEF Queue!Init, QueueOf, AddingOf, AnswerOf

\* A step that changes neither of the three is a stutter of the queue.
LEMMA Stutters ==
    ASSUME UNCHANGED <<QueueOf, AddingOf, AnswerOf>> PROVE UNCHANGED Queue!vars
  BY DEF Queue!vars, QueueOf, AddingOf, AnswerOf

\* The clauses of a list of nodes, the dummy left out, are a sequence.
LEMMA ClausesOfList ==
    ASSUME NEW l \in Seq(Node), Len(l) >= 1,
           NEW c, \A i \in 2..Len(l) : c[l[i]] \in Clause,
           NEW q, q = [i \in 1..(Len(l) - 1) |-> c[l[i + 1]]]
    PROVE  /\ q \in Seq(Clause)
           /\ Len(q) = Len(l) - 1
           /\ \A i \in 1..(Len(l) - 1) : q[i] = c[l[i + 1]]
<1>1. Len(l) \in Nat /\ Len(l) - 1 \in Nat
  OBVIOUS
<1>2. PICK n \in Nat : n = Len(l) - 1
  BY <1>1
<1>3. \A i \in 1..n : c[l[i + 1]] \in Clause
  BY <1>1, <1>2
<1>4. q \in [1..n -> Clause]
  BY <1>2, <1>3
<1>5. q \in Seq(Clause) /\ Len(q) = n
  BY <1>4, SeqDef
<1> QED
  BY <1>2, <1>5

\* The mapped queue is a sequence of clauses.
LEMMA QueueIsSeq ==
    ASSUME IInv, ClauseInv
    PROVE  /\ QueueOf \in Seq(Clause)
           /\ Len(QueueOf) = Len(list) - 1
           /\ \A i \in 1..(Len(list) - 1) : QueueOf[i] = clause[list[i + 1]]
  BY ClausesOfList DEF IInv, TypeOK, ListInv, ClauseInv, QueueOf

\* ... and so it is after a step.
LEMMA NextQueueIsSeq ==
    ASSUME IInv', ClauseInv'
    PROVE  /\ QueueOf' \in Seq(Clause)
           /\ Len(QueueOf') = Len(list') - 1
           /\ \A i \in 1..(Len(list') - 1) : QueueOf'[i] = clause'[list'[i + 1]]
  BY ClausesOfList DEF IInv, TypeOK, ListInv, ClauseInv, QueueOf

\* addClause is called: the new node is nowhere on the list.
LEMMA CallRefines ==
    ASSUME NEW p, Producer = {p}, IInv, ClauseInv, Call(p) PROVE Queue!Add(p)
<1>1. PICK n \in Allocatable, c \in Clause : Call(p)!2!(n, c)
  BY DEF Call
<1>2. n \notin live /\ n \in Node /\ ppc[p] = "idle" /\ ppc' = [ppc EXCEPT ![p] = "readTail"]
  BY <1>1 DEF Call, Allocatable
<1>3. AddingOf[p] = NULL /\ AddingOf' = [AddingOf EXCEPT ![p] = c]
  BY <1>1, <1>2 DEF AddingOf, IInv, TypeOK
<1>4. QueueOf' = QueueOf
  <2>1. list' = list /\ \A i \in 1..(Len(list) - 1) : clause'[list[i + 1]] = clause[list[i + 1]]
    BY <1>1, <1>2 DEF Call, IInv, TypeOK, ListInv
  <2> QED
    BY <2>1 DEF QueueOf
<1>5. AnswerOf' = AnswerOf
  BY DEF AnswerOf, Call, consumer, locals
<1> QED
  BY <1>3, <1>4, <1>5 DEF Queue!Add, QueueOf, AddingOf, AnswerOf

\* The instant an addition takes effect.
LEMMA LinkRefines ==
    ASSUME NEW p, Producer = {p}, IInv, IInv', ClauseInv, ClauseInv', SoloInv(p), Link(p)
    PROVE  Queue!Enqueue(p)
<1>1. Appended(p) /\ ppc[p] = "link"
  BY LinkSolo DEF Link
<1>2. AddingOf[p] = clause[pnode[p]] /\ clause[pnode[p]] \in Clause
  BY <1>1 DEF AddingOf, ClauseInv, Adding
<1>3. AddingOf' = [AddingOf EXCEPT ![p] = NULL]
  BY <1>1 DEF Appended, AddingOf, IInv, TypeOK
<1>4. QueueOf' = Append(QueueOf, AddingOf[p])
  <2>1. /\ QueueOf \in Seq(Clause) /\ Len(QueueOf) = Len(list) - 1
        /\ \A i \in 1..(Len(list) - 1) : QueueOf[i] = clause[list[i + 1]]
    BY QueueIsSeq
  <2>2. /\ QueueOf' \in Seq(Clause) /\ Len(QueueOf') = Len(list)
        /\ \A i \in 1..Len(list) : QueueOf'[i] = clause[list'[i + 1]]
    <3>1. /\ QueueOf' \in Seq(Clause) /\ Len(QueueOf') = Len(list') - 1
          /\ \A i \in 1..(Len(list') - 1) : QueueOf'[i] = clause'[list'[i + 1]]
      BY NextQueueIsSeq
    <3> QED
      BY <3>1, <1>1 DEF Appended
  <2>3. /\ Append(QueueOf, AddingOf[p]) \in Seq(Clause)
        /\ Len(Append(QueueOf, AddingOf[p])) = Len(list)
        /\ \A i \in 1..(Len(list) - 1) : Append(QueueOf, AddingOf[p])[i] = QueueOf[i]
        /\ Append(QueueOf, AddingOf[p])[Len(list)] = AddingOf[p]
    BY <1>1, <1>2, <2>1, AppendProperties DEF Appended
  <2>4. \A i \in 1..Len(list) : QueueOf'[i] = Append(QueueOf, AddingOf[p])[i]
    BY <1>1, <1>2, <2>1, <2>2, <2>3 DEF Appended
  <2> QED
    BY <2>2, <2>3, <2>4, SeqEqual
<1>5. AnswerOf' = AnswerOf
  BY <1>1 DEF AnswerOf, Appended, consumer, locals
<1> QED
  BY <1>2, <1>3, <1>4, <1>5, NullIsNoClause DEF Queue!Enqueue, QueueOf, AddingOf, AnswerOf

\* The instant a getClause takes effect: the oldest clause is the one it read.
LEMMA MoveHeadRefines ==
    ASSUME NEW p, Producer = {p}, IInv, IInv', ClauseInv, ClauseInv', MoveHead PROVE Queue!Dequeue
<1>1. Shortened /\ cpc = "moveHead" /\ ccls = clause[list[2]]
  BY MoveHeadShortens DEF MoveHead, ClauseInv, Shortened
<1>2. /\ QueueOf \in Seq(Clause) /\ Len(QueueOf) = Len(list) - 1
      /\ \A i \in 1..(Len(list) - 1) : QueueOf[i] = clause[list[i + 1]]
  BY QueueIsSeq
<1>3. /\ QueueOf' \in Seq(Clause) /\ Len(QueueOf') = Len(list) - 2
      /\ \A i \in 1..(Len(list) - 2) : QueueOf'[i] = clause[list'[i + 1]]
  <2>1. /\ QueueOf' \in Seq(Clause) /\ Len(QueueOf') = Len(list') - 1
        /\ \A i \in 1..(Len(list') - 1) : QueueOf'[i] = clause'[list'[i + 1]]
    BY NextQueueIsSeq
  <2>2. Len(list') - 1 = Len(list) - 2 /\ clause' = clause
    BY <1>1 DEF Shortened
  <2> QED
    BY <2>1, <2>2
<1>4. QueueOf # <<>> /\ Head(QueueOf) = ccls
  BY <1>1, <1>2 DEF Shortened
<1>5. QueueOf' = Tail(QueueOf)
  <2>1. /\ Tail(QueueOf) \in Seq(Clause) /\ Len(Tail(QueueOf)) = Len(list) - 2
        /\ \A i \in 1..(Len(list) - 2) : Tail(QueueOf)[i] = QueueOf[i + 1]
    <3>1. /\ Tail(QueueOf) \in Seq(Clause) /\ Len(Tail(QueueOf)) = Len(QueueOf) - 1
          /\ \A i \in 1..Len(Tail(QueueOf)) : Tail(QueueOf)[i] = QueueOf[i + 1]
      BY <1>2, <1>4, HeadTailProperties
    <3>2. Len(list) \in Nat
      BY <1>1 DEF Shortened
    <3> HIDE DEF QueueOf
    <3> QED
      BY <1>2, <3>1, <3>2
  <2>2. ASSUME NEW i \in 1..(Len(list) - 2) PROVE QueueOf'[i] = Tail(QueueOf)[i]
    <3>1. Len(list) \in Nat /\ list'[i + 1] = list[i + 2] /\ i + 1 \in 1..(Len(list) - 1)
      BY <1>1 DEF Shortened
    <3>2. QueueOf'[i] = clause[list[i + 2]]
      BY <1>3, <3>1
    <3>3. Tail(QueueOf)[i] = clause[list[i + 1 + 1]]
      BY <1>2, <2>1, <3>1
    <3>4. i + 1 + 1 = i + 2
      BY <3>1
    <3> QED
      BY <3>2, <3>3, <3>4
  <2> QED
    BY <1>3, <2>1, <2>2, SeqEqual
<1>6. AddingOf' = AddingOf
  BY <1>1 DEF AddingOf, Shortened
<1>7. AnswerOf = NULL /\ AnswerOf' = [found |-> TRUE, clause |-> ccls]
  BY <1>1 DEF AnswerOf, Shortened
<1> QED
  BY <1>4, <1>5, <1>6, <1>7 DEF Queue!Dequeue, Queue!Found, QueueOf, AddingOf, AnswerOf

\* The instant a getClause finds nothing: head->next is NULL, the list is the
\* dummy alone.
LEMMA CReadNextRefines ==
    ASSUME IInv, CReadNext PROVE Queue!Refuse \/ UNCHANGED Queue!vars
<1>1. /\ cnext' = next[head] /\ cpc = "readNext" /\ cpc' = "check"
      /\ UNCHANGED <<list, clause, ppc, pnode>>
  BY DEF CReadNext, NextRead, IInv, ListInv, ConsumerInv, buffer, producers
<1>2. AddingOf' = AddingOf /\ QueueOf' = QueueOf /\ AnswerOf = NULL
  BY <1>1 DEF AddingOf, QueueOf, AnswerOf
<1>3. CASE cnext' = NULL
  <2>1. Len(list) = 1
    <3>1. Len(list) \in Nat /\ Len(list) >= 1 /\ list[1] = head
      BY DEF IInv, TypeOK, ListInv
    <3>2. Len(list) >= 2 => next[head] = list[2] /\ list[2] \in Node
      BY <3>1 DEF IInv, TypeOK, ListInv
    <3> QED
      BY <1>1, <1>3, <3>1, <3>2, NullIsNoNode
  <2>2. QueueOf = <<>>
    BY <2>1 DEF QueueOf
  <2>3. AnswerOf' = [found |-> FALSE]
    BY <1>1, <1>3 DEF AnswerOf
  <2> QED
    BY <1>2, <2>2, <2>3 DEF Queue!Refuse, Queue!Empty, QueueOf, AddingOf, AnswerOf
<1>4. CASE cnext' # NULL
  <2>1. AnswerOf' = AnswerOf
    BY <1>1, <1>4 DEF AnswerOf
  <2> QED
    BY <1>2, <2>1, Stutters
<1> QED
  BY <1>3, <1>4

\* getClause returns, or getClauses stores the clause and asks for the next.
LEMMA ReturnRefines ==
    ASSUME ReturnFalse \/ PushBack \/ Drop \/ ReturnTrue
    PROVE  Queue!Return \/ UNCHANGED Queue!vars
<1>1. AddingOf' = AddingOf /\ QueueOf' = QueueOf /\ AnswerOf' = NULL
  BY DEF AddingOf, QueueOf, AnswerOf, ReturnFalse, PushBack, Drop, ReturnTrue, ReturnFromGet,
     buffer, producers
<1>2. CASE AnswerOf = NULL
  BY <1>1, <1>2, Stutters
<1>3. CASE AnswerOf # NULL
  BY <1>1, <1>3 DEF Queue!Return, QueueOf, AddingOf, AnswerOf
<1> QED
  BY <1>2, <1>3

\* The other steps of addClause are invisible.
LEMMA ProducerStutters ==
    ASSUME NEW p, Producer = {p}, IInv, SoloInv(p),
           PReadTail(p) \/ PReadNext(p) \/ PCheck(p) \/ PHelp(p) \/ Swing(p) \/ Count(p)
    PROVE  UNCHANGED Queue!vars
<1>1. QueueOf' = QueueOf /\ AnswerOf' = AnswerOf
  BY DEF QueueOf, AnswerOf, PReadTail, PReadNext, PCheck, PHelp, Swing, Count,
     buffer, consumer, locals
<1>2. AddingOf'[p] = AddingOf[p]
  BY DEF AddingOf, IInv, TypeOK, PReadTail, PReadNext, PCheck, PHelp, Swing, Count, buffer
<1>3. AddingOf' = AddingOf
  BY <1>2 DEF AddingOf
<1> QED
  BY <1>1, <1>3, Stutters

\* So are the other steps of getClause.
LEMMA ConsumerStutters ==
    ASSUME IInv,
           CallGetClauses \/ CallGetClause \/ CReadHead \/ CReadTail \/ CCheck \/ CHelp
             \/ ReadClause \/ Free \/ Uncount
    PROVE  UNCHANGED Queue!vars
<1>1. QueueOf' = QueueOf /\ AddingOf' = AddingOf
  BY DEF QueueOf, AddingOf, CallGetClauses, CallGetClause, CReadHead, CReadTail, CCheck, CHelp,
     ReadClause, Free, Uncount, buffer, producers
<1>2. CASE CCheck
  <2>1. cpc = "check" /\ cnext # NULL
    BY <1>2, NullIsNoNode DEF CCheck, IInv, TypeOK, ConsumerInv
  <2>2. AnswerOf' = AnswerOf
    BY <1>2, <2>1 DEF CCheck, AnswerOf
  <2> QED
    BY <1>1, <2>2, Stutters
<1>3. CASE ~CCheck
  <2>1. AnswerOf' = AnswerOf
    BY <1>3 DEF AnswerOf, CallGetClauses, CallGetClause, CReadHead, CReadTail, CHelp,
       ReadClause, Free, Uncount, locals
  <2> QED
    BY <1>1, <2>1, Stutters
<1> QED
  BY <1>2, <1>3

\* Every step of the buffer of a single producer is a step of the queue or
\* changes nothing of it.
LEMMA StepRefines ==
    ASSUME NEW p, Producer = {p}, IInv, IInv', ClauseInv, ClauseInv', SoloInv(p), [Next]_vars
    PROVE  [Queue!Next]_(Queue!vars)
<1>1. CASE Call(p) \/ AddClause(p)
  BY <1>1, CallRefines, LinkRefines, ProducerStutters DEF AddClause, Queue!Next
<1>2. CASE CallGetClauses \/ CallGetClause \/ GetClause
  BY <1>2, ConsumerStutters, CReadNextRefines, MoveHeadRefines, ReturnRefines
     DEF GetClause, Queue!Next
<1>3. CASE UNCHANGED vars
  <2>1. UNCHANGED <<QueueOf, AddingOf, AnswerOf>>
    BY <1>3 DEF vars, QueueOf, AddingOf, AnswerOf
  <2> QED
    BY <2>1, Stutters
<1> QED
  BY <1>1, <1>2, <1>3 DEF Next

\* addClause and getClause, with all their interleavings, are the operations of
\* one FIFO queue: no clause is lost, doubled or overtaken, and getClause says
\* there is none only when there is none.
THEOREM BufferIsQueue == ASSUME OneProducer PROVE Spec => ImplementsQueue
<1>1. PICK p : Producer = {p}
  BY DEF OneProducer
<1>2. Init => ClauseInv
  BY DEF Init, ClauseInv, Adding
<1>3. IInv /\ SoloInv(p) /\ ClauseInv /\ [Next]_vars => ClauseInv'
  BY <1>1, SoloInductive, ClauseInductive
<1>4. IInv /\ IInv' /\ ClauseInv /\ ClauseInv' /\ SoloInv(p) /\ [Next]_vars
        => [Queue!Next]_(Queue!vars)
  BY <1>1, StepRefines
<1> QED
  BY <1>1, <1>2, <1>3, <1>4, InitRefines, SoloInvariant, PTL
     DEF Spec, ImplementsQueue, Queue!Spec

=============================================================================
