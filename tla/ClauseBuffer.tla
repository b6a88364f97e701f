---------------------------- MODULE ClauseBuffer ----------------------------
(***************************************************************************)
(* painless/clauses/ClauseBuffer.{h,cpp}: the lock-free linked list        *)
(* through which solver threads and sharer threads exchange clauses.       *)
(*                                                                         *)
(* One action per access to a shared atomic.  Memory is explicit: a node   *)
(* is an address, "live" the addresses allocated and not yet deleted.  A   *)
(* deleted address may be handed out again by the next "new", whoever      *)
(* still holds it.                                                         *)
(*                                                                         *)
(* A buffer has one consumer (a solver for what it imports, one sharer for *)
(* what a solver exports).  It has one producer, except an import buffer   *)
(* under -shr-strat 2 and 4, to which several sharers add.                 *)
(***************************************************************************)
EXTENDS Integers, Sequences, FiniteSets

CONSTANTS Producer,   \* threads that call addClause
          Node,       \* addresses "new ListElement" may return (bounds the memory)
          Clause,     \* pointers to the clauses exchanged
          NULL

ASSUME NullIsNoNode == NULL \notin Node
ASSUME NullIsNoClause == NULL \notin Clause

VARIABLES
    head, tail,     \* buffer.head, buffer.tail
    size,           \* buffer.size
    next, clause,   \* the fields of the nodes
    live,           \* the addresses allocated
    ppc,            \* where each producer is in addClause
    pnode, ptail, pnext,          \* its locals node, tail, next
    cpc,            \* where the consumer is in getClauses / getClause
    batch,          \* TRUE in getClauses, FALSE in a getClause called directly
    chead, ctail, cnext, ccls,    \* its locals head, tail, next and *clause
    nClauses, nClausesGet,        \* the locals of getClauses
    list,           \* history variable: the nodes linked, from buffer.head on,
                    \* as long as no producer was misled
    stale,          \* history variable: the producers whose local tail points to
                    \* a node deleted since they loaded it
    misled          \* history variable: a compare-and-exchange of a stale
                    \* producer has succeeded, on memory that is free or in
                    \* which another node lives

history == <<stale, misled>>
buffer == <<head, tail, size, next, clause, live, list>>
producers == <<ppc, pnode, ptail, pnext, history>>
locals == <<batch, chead, ctail, cnext, ccls, nClauses, nClausesGet>>
consumer == <<cpc, locals>>
vars == <<head, tail, size, next, clause, live, list,
          ppc, pnode, ptail, pnext, stale, misled,
          cpc, batch, chead, ctail, cnext, ccls, nClauses, nClausesGet>>

Pointer == Node \cup {NULL}

PLocation == {"idle", "readTail", "readNext", "check", "link", "help", "swing", "count"}
CLocation == {"idle", "readHead", "readTail", "readNext", "check", "help",
              "readClause", "moveHead", "free", "uncount", "deliver"}

-----------------------------------------------------------------------------
Init ==
    \E dummy \in Node :
        /\ head = dummy
        /\ tail = dummy
        /\ size = 0
        /\ next = [n \in Node |-> NULL]
        /\ clause = [n \in Node |-> NULL]
        /\ live = {dummy}
        /\ list = <<dummy>>
        /\ ppc = [p \in Producer |-> "idle"]
        /\ pnode = [p \in Producer |-> NULL]
        /\ ptail = [p \in Producer |-> NULL]
        /\ pnext = [p \in Producer |-> NULL]
        /\ stale = {}
        /\ misled = FALSE
        /\ cpc = "idle"
        /\ batch = FALSE
        /\ chead = NULL
        /\ ctail = NULL
        /\ cnext = NULL
        /\ ccls = NULL
        /\ nClauses = 0
        /\ nClausesGet = 0

\* What a load of n->next may return: anything once n is deleted.
NextRead(n) == IF n \in live THEN {next[n]} ELSE Pointer

\* A compare-and-exchange on what p has loaded as its tail succeeds.
Exchanged(p) == misled' = (misled \/ p \in stale)

-----------------------------------------------------------------------------
(* Slips used to show that the properties below depend on the code: each   *)
(* stands in for the action named after "Bad" in one run, never in Spec.   *)

\* a plain store instead of the compare-and-exchange
BadLink(p) ==
    /\ ppc[p] = "link"
    /\ next' = [next EXCEPT ![ptail[p]] = pnode[p]]
    /\ Exchanged(p)
    /\ list' = IF misled' THEN list ELSE Append(list, pnode[p])
    /\ ppc' = [ppc EXCEPT ![p] = "swing"]
    /\ UNCHANGED <<head, tail, size, clause, live, pnode, ptail, pnext, stale, consumer>>

\* the consumer waits for the producer to move buffer.tail
BadCHelp ==
    /\ cpc = "help"
    /\ cpc' = "readHead"
    /\ UNCHANGED <<buffer, producers, locals>>

\* *clause = head->clause
BadReadClause ==
    /\ cpc = "readClause"
    /\ ccls' = clause[chead]
    /\ cpc' = "moveHead"
    /\ UNCHANGED <<buffer, producers, batch, chead, ctail, cnext, nClauses, nClausesGet>>

\* delete next
BadFree ==
    /\ cpc = "free"
    /\ live' = live \ {cnext}
    /\ stale' = stale \cup {p \in Producer : ptail[p] = cnext}
    /\ cpc' = "uncount"
    /\ UNCHANGED <<head, tail, size, next, clause, list, ppc, pnode, ptail, pnext, misled, locals>>

\* no delete at all
LeakFree ==
    /\ cpc = "free"
    /\ cpc' = "uncount"
    /\ UNCHANGED <<buffer, producers, locals>>

-----------------------------------------------------------------------------
(* addClause *)

\* "new" may return any address that is free, one that another producer still
\* holds as its tail included.
Allocatable == Node \ live

Call(p) ==
    /\ ppc[p] = "idle"
    /\ \E n \in Allocatable, c \in Clause :
        /\ live' = live \cup {n}
        /\ clause' = [clause EXCEPT ![n] = c]
        /\ next' = [next EXCEPT ![n] = NULL]
        /\ pnode' = [pnode EXCEPT ![p] = n]
    /\ ppc' = [ppc EXCEPT ![p] = "readTail"]
    /\ UNCHANGED <<head, tail, size, list, ptail, pnext, history, consumer>>

PReadTail(p) ==
    /\ ppc[p] = "readTail"
    /\ ptail' = [ptail EXCEPT ![p] = tail]
    /\ stale' = stale \ {p}
    /\ ppc' = [ppc EXCEPT ![p] = "readNext"]
    /\ UNCHANGED <<buffer, pnode, pnext, misled, consumer>>

PReadNext(p) ==
    /\ ppc[p] = "readNext"
    /\ \E n \in NextRead(ptail[p]) : pnext' = [pnext EXCEPT ![p] = n]
    /\ ppc' = [ppc EXCEPT ![p] = "check"]
    /\ UNCHANGED <<buffer, pnode, ptail, history, consumer>>

PCheck(p) ==
    /\ ppc[p] = "check"
    /\ ppc' = [ppc EXCEPT ![p] = IF ptail[p] # tail THEN "readTail"
                                 ELSE IF pnext[p] = NULL THEN "link" ELSE "help"]
    /\ UNCHANGED <<buffer, pnode, ptail, pnext, history, consumer>>

\* tail->next.compare_exchange_strong(next, node), next being NULL.  In a node
\* deleted meanwhile it may find anything, and write to memory that is nobody's.
Link(p) ==
    /\ ppc[p] = "link"
    /\ \/ /\ NULL \in NextRead(ptail[p])
          /\ next' = [next EXCEPT ![ptail[p]] = pnode[p]]
          /\ Exchanged(p)
          /\ list' = IF misled' THEN list ELSE Append(list, pnode[p])
          /\ ppc' = [ppc EXCEPT ![p] = "swing"]
          /\ UNCHANGED pnext
       \/ /\ \E n \in NextRead(ptail[p]) \ {NULL} : pnext' = [pnext EXCEPT ![p] = n]
          /\ ppc' = [ppc EXCEPT ![p] = "readTail"]
          /\ UNCHANGED <<next, list, misled>>
    /\ UNCHANGED <<head, tail, size, clause, live, pnode, ptail, stale, consumer>>

\* buffer.tail.compare_exchange_strong(tail, n)
MoveTail(p, n) ==
    \/ tail = ptail[p] /\ tail' = n /\ Exchanged(p)
    \/ tail # ptail[p] /\ UNCHANGED <<tail, misled>>

PHelp(p) ==
    /\ ppc[p] = "help"
    /\ MoveTail(p, pnext[p])
    /\ ppc' = [ppc EXCEPT ![p] = "readTail"]
    /\ UNCHANGED <<head, size, next, clause, live, list, pnode, ptail, pnext, stale, consumer>>

Swing(p) ==
    /\ ppc[p] = "swing"
    /\ MoveTail(p, pnode[p])
    /\ ppc' = [ppc EXCEPT ![p] = "count"]
    /\ UNCHANGED <<head, size, next, clause, live, list, pnode, ptail, pnext, stale, consumer>>

\* buffer.size++; the locals go out of scope.
Count(p) ==
    /\ ppc[p] = "count"
    /\ size' = size + 1
    /\ ppc' = [ppc EXCEPT ![p] = "idle"]
    /\ pnode' = [pnode EXCEPT ![p] = NULL]
    /\ ptail' = [ptail EXCEPT ![p] = NULL]
    /\ pnext' = [pnext EXCEPT ![p] = NULL]
    /\ stale' = stale \ {p}
    /\ UNCHANGED <<head, tail, next, clause, live, list, misled, consumer>>

AddClause(p) ==
    \/ PReadTail(p) \/ PReadNext(p) \/ PCheck(p)
    \/ Link(p) \/ PHelp(p) \/ Swing(p) \/ Count(p)

-----------------------------------------------------------------------------
(* getClause, and the loop of getClauses around it *)

CallGetClauses ==
    /\ cpc = "idle"
    /\ batch' = TRUE
    /\ nClauses' = size
    /\ nClausesGet' = 0
    /\ cpc' = "readHead"
    /\ UNCHANGED <<buffer, producers, chead, ctail, cnext, ccls>>

CallGetClause ==
    /\ cpc = "idle"
    /\ batch' = FALSE
    /\ cpc' = "readHead"
    /\ UNCHANGED <<buffer, producers, chead, ctail, cnext, ccls, nClauses, nClausesGet>>

CReadHead ==
    /\ cpc = "readHead"
    /\ chead' = head
    /\ cpc' = "readTail"
    /\ UNCHANGED <<buffer, producers, batch, ctail, cnext, ccls, nClauses, nClausesGet>>

CReadTail ==
    /\ cpc = "readTail"
    /\ ctail' = tail
    /\ cpc' = "readNext"
    /\ UNCHANGED <<buffer, producers, batch, chead, cnext, ccls, nClauses, nClausesGet>>

CReadNext ==
    /\ cpc = "readNext"
    /\ cnext' \in NextRead(chead)
    /\ cpc' = "check"
    /\ UNCHANGED <<buffer, producers, batch, chead, ctail, ccls, nClauses, nClausesGet>>

\* The locals of the consumer when getClauses or a direct getClause returns.
ReturnFromGet ==
    /\ cpc' = "idle"
    /\ batch' = FALSE
    /\ chead' = NULL
    /\ ctail' = NULL
    /\ cnext' = NULL
    /\ ccls' = NULL
    /\ nClauses' = 0
    /\ nClausesGet' = 0

\* buffer.head == head, then head == tail, then next == NULL
CCheck ==
    /\ cpc = "check"
    /\ chead = head => chead # ctail \/ cnext # NULL
    /\ cpc' = IF chead # head THEN "readHead"
              ELSE IF chead = ctail THEN "help" ELSE "readClause"
    /\ UNCHANGED <<buffer, producers, locals>>

ReturnFalse ==
    /\ cpc = "check"
    /\ chead = head
    /\ chead = ctail
    /\ cnext = NULL
    /\ ReturnFromGet
    /\ UNCHANGED <<buffer, producers>>

CHelp ==
    /\ cpc = "help"
    /\ tail' = IF tail = ctail THEN cnext ELSE tail
    /\ cpc' = "readHead"
    /\ UNCHANGED <<head, size, next, clause, live, list, producers, locals>>

\* *clause = next->clause.  Only a misled producer makes next NULL here, where
\* the program then ends.
ReadClause ==
    /\ cpc = "readClause"
    /\ cnext # NULL
    /\ ccls' = clause[cnext]
    /\ cpc' = "moveHead"
    /\ UNCHANGED <<buffer, producers, batch, chead, ctail, cnext, nClauses, nClausesGet>>

MoveHead ==
    /\ cpc = "moveHead"
    /\ IF head = chead
       THEN /\ head' = cnext
            /\ list' = IF misled THEN list ELSE Tail(list)
            /\ cpc' = "free"
       ELSE /\ cpc' = "readHead"
            /\ UNCHANGED <<head, list>>
    /\ UNCHANGED <<tail, size, next, clause, live, producers, locals>>

\* delete head
Free ==
    /\ cpc = "free"
    /\ live' = live \ {chead}
    /\ stale' = stale \cup {p \in Producer : ptail[p] = chead}
    /\ cpc' = "uncount"
    /\ UNCHANGED <<head, tail, size, next, clause, list, ppc, pnode, ptail, pnext, misled, locals>>

Uncount ==
    /\ cpc = "uncount"
    /\ size' = size - 1
    /\ cpc' = "deliver"
    /\ UNCHANGED <<head, tail, next, clause, live, list, producers, locals>>

\* getClauses: the test "nClausesGet < nClauses" comes after the clause is out.
PushBack ==
    /\ cpc = "deliver"
    /\ batch
    /\ nClausesGet < nClauses
    /\ nClausesGet' = nClausesGet + 1
    /\ cpc' = "readHead"
    /\ UNCHANGED <<buffer, producers, batch, chead, ctail, cnext, ccls, nClauses>>

\* ... and the clause dequeued when the test fails is pushed nowhere.
Drop ==
    /\ cpc = "deliver"
    /\ batch
    /\ nClausesGet >= nClauses
    /\ ReturnFromGet
    /\ UNCHANGED <<buffer, producers>>

ReturnTrue ==
    /\ cpc = "deliver"
    /\ ~batch
    /\ ReturnFromGet
    /\ UNCHANGED <<buffer, producers>>

GetClause ==
    \/ CReadHead \/ CReadTail \/ CReadNext \/ CCheck \/ ReturnFalse \/ CHelp
    \/ ReadClause \/ MoveHead \/ Free \/ Uncount \/ PushBack \/ Drop \/ ReturnTrue

-----------------------------------------------------------------------------
Next ==
    \/ \E p \in Producer : Call(p) \/ AddClause(p)
    \/ CallGetClauses
    \/ CallGetClause
    \/ GetClause

Spec == Init /\ [][Next]_vars

\* Nobody is obliged to call, but the threads of one side are scheduled; those
\* of the other may stop anywhere.
ConsumerScheduled == WF_vars(GetClause)
ProducersScheduled == \A p \in Producer : WF_vars(AddClause(p))

OneSideSpec == Spec /\ (ConsumerScheduled \/ ProducersScheduled)

-----------------------------------------------------------------------------
(* Properties *)

\* The range of every variable.  size counts an addition only after it is
\* visible, so it may be as low as -1 for each producer.
TypeOK ==
    /\ head \in Node /\ tail \in Node
    /\ size \in Int
    /\ next \in [Node -> Pointer]
    /\ clause \in [Node -> Clause \cup {NULL}]
    /\ live \in SUBSET Node
    /\ list \in Seq(Node)
    /\ ppc \in [Producer -> PLocation]
    /\ pnode \in [Producer -> Pointer]
    /\ ptail \in [Producer -> Pointer]
    /\ pnext \in [Producer -> Pointer]
    /\ stale \in SUBSET Producer /\ misled \in BOOLEAN
    /\ cpc \in CLocation
    /\ batch \in BOOLEAN
    /\ chead \in Pointer /\ ctail \in Pointer /\ cnext \in Pointer
    /\ ccls \in Clause \cup {NULL}
    /\ nClauses \in Int /\ nClausesGet \in Int

\* getClause deletes a node the moment buffer.head has left it.  No producer
\* reads the next field of, or links a node to, a node already deleted.
ProducersUseLiveNodes ==
    \A p \in Producer : ppc[p] \in {"readNext", "link"} => ptail[p] \in live

\* Nor does getClause read a deleted node, or delete a node twice.
ConsumerUsesLiveNodes ==
    /\ cpc \in {"readNext", "free"} => chead \in live
    /\ cpc = "readClause" => cnext \in live

\* addClause and getClause keep the list connected from buffer.head to a last
\* node whose next is NULL, with buffer.tail on its last or last but one node.
ListIsConnected ==
    LET last == Len(list) IN
    /\ last >= 1
    /\ list[1] = head
    /\ \A i \in 1..(last - 1) : next[list[i]] = list[i + 1]
    /\ next[list[last]] = NULL
    /\ \E i \in 1..last : list[i] = tail /\ i + 1 >= last

\* What getClause relies on, also when several sharers add to the buffer
\* (shr-strat 2 and 4) and a producer may find anything in a node deleted
\* under it: it stays on allocated nodes and the list stays in one piece, as
\* long as no compare-and-exchange of addClause is misled by an address that
\* was deleted and perhaps handed out again since it was loaded.  Nothing in
\* addClause prevents that one: see the README.
ConsumerIsSafe == ~misled => ConsumerUsesLiveNodes /\ ListIsConnected

\* With one producer nobody touches a deleted node, and no address comes back
\* under a pointer that is still used: the buffer needs no memory reclamation
\* scheme.
MemoryIsSound ==
    /\ TypeOK
    /\ ProducersUseLiveNodes
    /\ ~misled
    /\ ConsumerUsesLiveNodes
    /\ ListIsConnected

\* The nodes allocated are those of the list, those the producers have not
\* linked yet and the one the consumer is about to delete: addClause and
\* getClause neither leak a node nor delete one that is in use.
NodesAreAccountedFor ==
    live = {list[i] : i \in DOMAIN list}
           \cup {pnode[p] : p \in {q \in Producer :
                    ppc[q] \in {"readTail", "readNext", "check", "link", "help"}}}
           \cup (IF cpc = "free" THEN {chead} ELSE {})

\* buffer.size is the number of clauses in the list, short of the additions
\* linked and not yet counted and of the removal not yet counted: what size()
\* says is exact when nobody is between the two steps.
SizeAccounts ==
    size = Len(list) - 1
           - Cardinality({p \in Producer : ppc[p] \in {"swing", "count"}})
           + (IF cpc \in {"free", "uncount"} THEN 1 ELSE 0)

\* Neither addresses nor clauses get lost in the count, at any step of the two
\* operations.
AccountsBalance == NodesAreAccountedFor /\ SizeAccounts

\* The abstract queue: a clause is in it from the instant its node is linked
\* to the instant buffer.head moves onto that node.
Queue == INSTANCE ClauseQueue WITH
    queue <- [i \in 1..(Len(list) - 1) |-> clause[list[i + 1]]],
    adding <- [p \in Producer |->
                 IF ppc[p] \in {"readTail", "readNext", "check", "link", "help"}
                 THEN clause[pnode[p]] ELSE NULL],
    answer <- IF cpc = "check" /\ cnext = NULL THEN [found |-> FALSE]
              ELSE IF cpc \in {"free", "uncount", "deliver"}
              THEN [found |-> TRUE, clause |-> ccls]
              ELSE NULL

\* addClause and getClause behave as the operations of one FIFO queue.
ImplementsQueue == Queue!Spec

\* With a single consumer getClause is wait-free: getClauses returns however
\* fast the producer adds, and even if it stops halfway through addClause.
GetReturns == ConsumerScheduled => (cpc # "idle" ~> cpc = "idle")

\* With one producer addClause is wait-free too: it returns even if the
\* consumer stops halfway through getClause.
AddReturns ==
    ProducersScheduled => \A p \in Producer : ppc[p] # "idle" ~> ppc[p] = "idle"

\* Either side returns, wherever the other stops.
CallsReturn == GetReturns /\ AddReturns

=============================================================================
