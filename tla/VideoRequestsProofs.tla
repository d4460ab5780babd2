------------------------- MODULE VideoRequestsProofs -------------------------
(***************************************************************************)
(* Proofs about VideoRequests, for any numbers of streams, requests and    *)
(* transactions, however they overlap: no media without consent, and no    *)
(* return of an ended request but by a handler that had read it before.    *)
(***************************************************************************)
EXTENDS VideoRequests, TLAPS

\* What an open transaction knows stays true while others write: the rows it
\* found are still there, the request it creates is not, and what it saw of an
\* approval is still so.
Reliable(w) ==
    work[w] # Nil =>
        /\ \A q \in work[w].others : requests[q] # Nil
        /\ work[w].op \in {"create", "reconcile"}
             => \A v \in work[w].of : streams[v] # Nil
        /\ work[w].op = "create" =>
                /\ work[w].req \in Request /\ requests[work[w].req] = Nil
                /\ \A x \in Worker \ {w} :
                        Doing(x, "create") => work[x].req # work[w].req
        /\ work[w].op \notin {"create", "reconcile", "expire", "list"} =>
                /\ work[w].req \in Request /\ requests[work[w].req] # Nil
                /\ work[w].was \in Glance
                /\ work[w].op = "approve_remotely"
                     => requests[work[w].req].remote
                /\ work[w].was.state \in Active \/ work[w].was.media
                     => requests[work[w].req].by # "nobody"

Consenting(row) ==
    /\ row.state \in Active \/ row.media # "none" => row.by # "nobody"
    /\ row.by = "requester" => row.remote

IInv == TypeOK /\ ConsentGiven /\ \A w \in Worker : Reliable(w)

\* A step loses no row, no approval and no remote control.
Keeps ==
    /\ \A v \in Stream : streams[v] # Nil => streams'[v] # Nil
    /\ \A r \in Request : requests[r] # Nil =>
            /\ requests'[r] # Nil /\ requests'[r].remote = requests[r].remote
            /\ requests[r].by # "nobody" => requests'[r].by # "nobody"

\* The handlers of one request are not those with names of their own.
LEMMA HandlerNames ==
    \A op \in Op \cup Decision :
        op \notin {"create", "reconcile", "expire", "list"}
  BY DEF Op, Decision, GoesOn

LEMMA InitInv == Init => IInv
  BY DEF Init, IInv, TypeOK, ConsentGiven, Reliable

\* Transactions that stay open lose nothing by a step that keeps the rows.
LEMMA ReliableAfter ==
    ASSUME IInv, Keeps, NEW w,
           \/ work' = work
           \/ w \in Worker /\ work' = [work EXCEPT ![w] = Nil],
           \A r \in Request : requests[r] = Nil =>
                \/ requests'[r] = Nil
                \/ /\ w \in Worker /\ work' = [work EXCEPT ![w] = Nil]
                   /\ Doing(w, "create") /\ r = work[w].req
    PROVE  \A x \in Worker : Reliable(x)'
<1> SUFFICES ASSUME NEW x \in Worker, work'[x] # Nil PROVE Reliable(x)'
  BY DEF Reliable
<1>1. work'[x] = work[x] /\ (work' = work \/ x # w)
  BY DEF IInv, TypeOK
<1>2. Reliable(x) /\ work[x] \in Transaction
  BY <1>1 DEF IInv, TypeOK
<1>3. \A y \in Worker : Doing(y, "create")' => Doing(y, "create") /\ work'[y] = work[y]
  BY DEF IInv, TypeOK, Doing, Idle
<1>4. \A q \in work[x].others : requests'[q] # Nil
  BY <1>1, <1>2 DEF Reliable, Keeps, Transaction
<1>5. work[x].op \in {"create", "reconcile"}
        => \A v \in work[x].of : streams'[v] # Nil
  BY <1>1, <1>2 DEF Reliable, Keeps, Transaction
<1>6. work[x].op = "create" =>
        /\ work[x].req \in Request /\ requests'[work[x].req] = Nil
        /\ \A y \in Worker \ {x} :
                Doing(y, "create")' => work'[y].req # work'[x].req
  <2> SUFFICES ASSUME work[x].op = "create"
               PROVE  /\ work[x].req \in Request /\ requests'[work[x].req] = Nil
                      /\ \A y \in Worker \ {x} :
                              Doing(y, "create")' => work'[y].req # work'[x].req
    OBVIOUS
  <2>1. /\ work[x].req \in Request /\ requests[work[x].req] = Nil
        /\ \A y \in Worker \ {x} : Doing(y, "create") => work[y].req # work[x].req
    BY <1>1, <1>2 DEF Reliable
  <2>2. \/ requests'[work[x].req] = Nil
        \/ /\ w \in Worker /\ work' = [work EXCEPT ![w] = Nil]
           /\ Doing(w, "create") /\ work[x].req = work[w].req
    BY <2>1
  <2>3. w \in Worker /\ work' = [work EXCEPT ![w] = Nil] => x # w
    BY DEF IInv, TypeOK
  <2>4. requests'[work[x].req] = Nil
    BY <2>1, <2>2, <2>3
  <2> QED BY <2>1, <2>4, <1>1, <1>3
<1>7. work[x].op \notin {"create", "reconcile", "expire", "list"} =>
        /\ work[x].req \in Request /\ requests'[work[x].req] # Nil
        /\ work[x].was \in Glance
        /\ work[x].op = "approve_remotely" => requests'[work[x].req].remote
        /\ work[x].was.state \in Active \/ work[x].was.media
             => requests'[work[x].req].by # "nobody"
  BY <1>1, <1>2 DEF Reliable, Keeps
<1> QED BY <1>1, <1>4, <1>5, <1>6, <1>7 DEF Reliable

\* A handler of one request saves a row that keeps remote control and approval.
LEMMA SaveKeeps ==
    ASSUME IInv, NEW w \in Worker, ~Idle(w), NEW row,
           work[w].op \notin {"create", "reconcile", "expire", "list"},
           Save(w, row),
           LET old == requests[work[w].req] IN
               old \in Row =>
                 /\ row \in Row /\ Consenting(row) /\ row.remote = old.remote
                 /\ old.by # "nobody" => row.by # "nobody"
    PROVE  IInv'
<1>1. /\ work[w] \in Transaction /\ work[w].req \in Request
      /\ requests[work[w].req] # Nil /\ requests[work[w].req] \in Row
  BY DEF IInv, TypeOK, Reliable, Idle
<1>2. /\ requests' = [requests EXCEPT ![work[w].req] = row]
      /\ work' = [work EXCEPT ![w] = Nil] /\ streams' = streams
  BY DEF Save, Close
<1>3. TypeOK' /\ row \in Row
  BY <1>1, <1>2 DEF IInv, TypeOK
<1>4. ConsentGiven'
  BY <1>1, <1>2 DEF IInv, TypeOK, ConsentGiven, Consenting
<1>5. Keeps
  BY <1>1, <1>2, <1>3, NilAssumption DEF Keeps, IInv, TypeOK
<1>6. \A r \in Request : requests[r] = Nil => requests'[r] = Nil
  BY <1>1, <1>2 DEF IInv, TypeOK
<1>7. \A x \in Worker : Reliable(x)'
  BY <1>2, <1>5, <1>6, ReliableAfter
<1> QED BY <1>3, <1>4, <1>7 DEF IInv

\* A handler of one request saves the row with another state.
LEMMA AssignedRow ==
    ASSUME IInv, NEW w \in Worker, ~Idle(w), NEW state,
           work[w].op \notin {"create", "reconcile", "expire", "list"},
           state \in Live \cup Terminal,
           state \in Active => requests[work[w].req].by # "nobody"
    PROVE  LET old == requests[work[w].req]
               row == Assigned(w, state)
           IN  /\ old \in Row /\ row \in Row /\ Consenting(row)
               /\ row.remote = old.remote /\ row.by = old.by
               /\ row.media = old.media /\ row.probe = old.probe
<1>1. /\ work[w].req \in Request /\ requests[work[w].req] # Nil
      /\ requests[work[w].req] \in Row
  BY DEF IInv, TypeOK, Reliable, Idle
<1>2. Consenting(requests[work[w].req])
  BY <1>1 DEF IInv, ConsentGiven, Consenting
<1> QED BY <1>1, <1>2 DEF Assigned, Row, Consenting, Active

LEMMA WithoutRow ==
    ASSUME NEW w, NEW xs, NEW row \in Row, Consenting(row)
    PROVE  LET without == Without(w, row, xs)
           IN  /\ without \in Row /\ Consenting(without)
               /\ without.remote = row.remote /\ without.by = row.by
  BY DEF Without, Row, Consenting, Exchange

LEMMA TimedOutInv ==
    ASSUME IInv, NEW w \in Worker, ~Idle(w), NEW xs, TimedOut(w, xs),
           work[w].op \notin {"create", "reconcile", "expire", "list"}
    PROVE  IInv'
<1> DEFINE late == Assigned(w, "expired")
<1>1. /\ requests[work[w].req] \in Row /\ late \in Row /\ Consenting(late)
      /\ late.remote = requests[work[w].req].remote
      /\ late.by = requests[work[w].req].by
  BY AssignedRow DEF Live, Active, Waiting, Terminal
<1> HIDE DEF late
<1>2. /\ Without(w, late, xs) \in Row /\ Consenting(Without(w, late, xs))
      /\ Without(w, late, xs).remote = late.remote
      /\ Without(w, late, xs).by = late.by
  BY <1>1, WithoutRow
<1>3. Save(w, Without(w, late, xs))
  BY DEF TimedOut, late
<1> QED BY <1>1, <1>2, <1>3, SaveKeeps

\* The handlers of one request, one by one.
LEMMA OneRequest ==
    ASSUME IInv, NEW w \in Worker,
           \/ Cancel(w) \/ Poll(w) \/ StartPreflight(w) \/ StartMedia(w)
           \/ MarkStreaming(w) \/ Stop(w) \/ PreflightAnswer(w)
           \/ PreflightResult(w) \/ Unavailable(w) \/ MediaAnswer(w)
           \/ Terminate(w) \/ Decline(w)
    PROVE  IInv'
<1> DEFINE req == work[w].req  old == requests[work[w].req]
<1>1. /\ ~Idle(w)
      /\ work[w].op \notin {"create", "reconcile", "expire", "list"}
  BY DEF Cancel, Poll, StartPreflight, StartMedia, MarkStreaming, Stop,
         PreflightAnswer, PreflightResult, Unavailable, MediaAnswer, Terminate,
         Decline, Doing
<1>2. /\ old \in Row /\ Consenting(old)
      /\ work[w].was.state \in Active => old.by # "nobody"
      /\ work[w].was.media => old.by # "nobody"
  BY <1>1 DEF IInv, TypeOK, Reliable, Idle, ConsentGiven, Consenting
<1>3. ASSUME NEW state \in (Live \cup Terminal) \ Active
      PROVE  /\ Assigned(w, state) \in Row /\ Consenting(Assigned(w, state))
             /\ Assigned(w, state).remote = old.remote
             /\ Assigned(w, state).by = old.by
  BY <1>1, AssignedRow
<1>4. ASSUME NEW state \in (Live \cup Terminal) \ Active, NEW xs,
             Save(w, Without(w, Assigned(w, state), xs))
      PROVE  IInv'
  <2>1. /\ Without(w, Assigned(w, state), xs) \in Row
        /\ Consenting(Without(w, Assigned(w, state), xs))
        /\ Without(w, Assigned(w, state), xs).remote = old.remote
        /\ Without(w, Assigned(w, state), xs).by = old.by
    BY <1>3, WithoutRow
  <2> QED BY <1>1, <1>4, <2>1, SaveKeeps
<1>5. ASSUME NEW row \in Row, Consenting(row), row.remote = old.remote,
             row.by = old.by, Save(w, row)
      PROVE  IInv'
  BY <1>1, <1>5, SaveKeeps
<1>6. /\ "expired" \notin Active /\ "cancelled" \notin Active
      /\ "probing" \notin Active /\ "stopped" \notin Active
      /\ "awaiting_approval" \notin Active /\ "e_nosuch_stream" \notin Active
      /\ "redirected" \notin Active /\ "declined" \notin Active
      /\ {"expired", "cancelled", "probing", "stopped", "awaiting_approval",
          "e_nosuch_stream", "redirected", "declined"} \subseteq Live \cup Terminal
  BY DEF Active, Live, Waiting, Terminal
<1> HIDE DEF req, old
<1>7. CASE \E xs : TimedOut(w, xs)
  BY <1>1, <1>7, TimedOutInv
<1>8. CASE Cancel(w)
  BY <1>4, <1>6, <1>7, <1>8 DEF Cancel
<1>9. CASE Poll(w)
  BY <1>7, <1>9 DEF Poll
<1>10. CASE StartPreflight(w) /\ Save(w, [Assigned(w, "probing") EXCEPT !.probe = "offer"])
  <2> DEFINE row == [Assigned(w, "probing") EXCEPT !.probe = "offer"]
  <2>1. row \in Row /\ Consenting(row) /\ row.remote = old.remote /\ row.by = old.by
    BY <1>3, <1>6 DEF Row, Consenting, Exchange
  <2> QED BY <1>5, <1>10, <2>1
<1>11. CASE StartMedia(w) /\ InTime(w) /\ Save(w, [old EXCEPT !.media = "offer"])
  <2> DEFINE row == [old EXCEPT !.media = "offer"]
  <2>1. old.by # "nobody"
    BY <1>2, <1>11 DEF StartMedia, InTime, Fits, Doing, GoesOn
  <2>2. row \in Row /\ Consenting(row) /\ row.remote = old.remote /\ row.by = old.by
    BY <1>2, <2>1 DEF Row, Consenting, Exchange
  <2> QED BY <1>5, <1>11, <2>2
<1>12. CASE MarkStreaming(w) /\ InTime(w) /\ Save(w, Assigned(w, "streaming"))
  <2>1. old.by # "nobody"
    BY <1>2, <1>12 DEF MarkStreaming, InTime, Fits, Doing, GoesOn
  <2>2. /\ Assigned(w, "streaming") \in Row /\ Consenting(Assigned(w, "streaming"))
        /\ Assigned(w, "streaming").remote = old.remote
        /\ Assigned(w, "streaming").by = old.by
    BY <1>1, <2>1, AssignedRow DEF old, Live, Active
  <2> QED BY <1>5, <1>12, <2>2
<1>13. CASE Stop(w)
  BY <1>4, <1>6, <1>13 DEF Stop
<1>14. CASE PreflightAnswer(w)
  <2> DEFINE row == [old EXCEPT !.probe = "answer"]
  <2>1. row \in Row /\ Consenting(row) /\ row.remote = old.remote /\ row.by = old.by
    BY <1>2 DEF Row, Consenting, Exchange
  <2> QED BY <1>5, <1>14, <2>1 DEF PreflightAnswer, old
<1>15. CASE PreflightResult(w) /\ Save(w, [Assigned(w, "awaiting_approval") EXCEPT !.probe = "none"])
  <2> DEFINE row == [Assigned(w, "awaiting_approval") EXCEPT !.probe = "none"]
  <2>1. row \in Row /\ Consenting(row) /\ row.remote = old.remote /\ row.by = old.by
    BY <1>3, <1>6 DEF Row, Consenting, Exchange
  <2> QED BY <1>5, <1>15, <2>1
<1>16. CASE Unavailable(w)
  <2> DEFINE base == Assigned(w, "e_nosuch_stream")
             row == [base EXCEPT !.probe = "none", !.media = "none"]
  <2>1. base \in Row /\ Consenting(base) /\ base.remote = old.remote /\ base.by = old.by
    BY <1>3, <1>6
  <2>2. Save(w, row)
    BY <1>16 DEF Unavailable
  <2> HIDE DEF base
  <2>3. row \in Row /\ row.state = base.state /\ row.media = "none"
        /\ row.remote = base.remote /\ row.by = base.by
    BY <2>1 DEF Row, Exchange
  <2>4. Consenting(row)
    BY <2>1, <2>3 DEF Consenting
  <2> QED BY <1>5, <2>1, <2>2, <2>3, <2>4
<1>17. CASE MediaAnswer(w) /\ Save(w, [old EXCEPT !.media = "answer"])
  <2> DEFINE row == [old EXCEPT !.media = "answer"]
  <2>1. old.by # "nobody"
    BY <1>2, <1>17 DEF MediaAnswer
  <2>2. row \in Row /\ Consenting(row) /\ row.remote = old.remote /\ row.by = old.by
    BY <1>2, <2>1 DEF Row, Consenting, Exchange
  <2> QED BY <1>5, <1>17, <2>2
<1>18. CASE Terminate(w)
  BY <1>3, <1>4, <1>5, <1>6, <1>18 DEF Terminate
<1>19. CASE Decline(w)
  BY <1>3, <1>5, <1>6, <1>7, <1>19 DEF Decline
<1> QED
  BY <1>7, <1>8, <1>9, <1>10, <1>11, <1>12, <1>13, <1>14, <1>15, <1>16, <1>17,
     <1>18, <1>19
  DEF StartPreflight, StartMedia, MarkStreaming, PreflightResult, MediaAnswer, old

\* Closing rows that exist leaves rows, with their remote control and approval.
LEMMA ClosedRows ==
    ASSUME IInv, NEW rs, \A r \in rs : requests[r] # Nil,
           NEW state \in Terminal
    PROVE  LET after == Closed(rs, state) IN
               /\ after \in [Request -> Row \cup {Nil}]
               /\ \A r \in Request :
                    /\ requests[r] = Nil => after[r] = Nil
                    /\ requests[r] # Nil =>
                        /\ after[r] \in Row /\ Consenting(after[r])
                        /\ after[r].remote = requests[r].remote
                        /\ after[r].by = requests[r].by
<1> DEFINE after == Closed(rs, state)
<1>1. ASSUME NEW r \in Request, requests[r] # Nil
      PROVE  /\ after[r] \in Row /\ Consenting(after[r])
             /\ after[r].remote = requests[r].remote
             /\ after[r].by = requests[r].by
  <2>1. requests[r] \in Row /\ Consenting(requests[r])
    BY <1>1 DEF IInv, TypeOK, ConsentGiven, Consenting
  <2>2. CASE r \notin rs
    BY <2>1, <2>2 DEF Closed
  <2>3. CASE r \in rs
    <3> DEFINE row == [requests[r] EXCEPT !.state = state, !.probe = "none",
                                          !.media = "none"]
    <3>1. after[r] = row
      BY <2>3 DEF Closed
    <3>2. /\ row \in Row /\ row.state = state /\ row.media = "none"
          /\ row.remote = requests[r].remote /\ row.by = requests[r].by
      BY <2>1 DEF Row, Exchange
    <3>3. state \notin Active
      BY DEF Terminal, Active
    <3>4. Consenting(row)
      BY <2>1, <3>2, <3>3 DEF Consenting
    <3> QED BY <3>1, <3>2, <3>4
  <2> QED BY <2>2, <2>3
<1>2. ASSUME NEW r \in Request, requests[r] = Nil
      PROVE  after[r] = Nil
  BY <1>2 DEF Closed
<1>3. after \in [Request -> Row \cup {Nil}]
  <2>1. after = [r \in Request |-> after[r]]
    BY DEF Closed
  <2>2. \A r \in Request : after[r] \in Row \cup {Nil}
    BY <1>1, <1>2
  <2> HIDE DEF after
  <2> QED BY <2>1, <2>2
<1> QED BY <1>1, <1>2, <1>3

\* A step whose new rows each keep remote control and approval.
LEMMA RowsKeep ==
    ASSUME IInv, NEW w,
           \/ work' = work
           \/ w \in Worker /\ work' = [work EXCEPT ![w] = Nil],
           streams' \in [Stream -> StreamRow \cup {Nil}],
           \A v \in Stream : streams[v] # Nil => streams'[v] # Nil,
           requests' \in [Request -> Row \cup {Nil}],
           \A r \in Request :
                /\ requests[r] = Nil => requests'[r] = Nil
                /\ requests[r] # Nil =>
                    /\ requests'[r] \in Row /\ Consenting(requests'[r])
                    /\ requests'[r].remote = requests[r].remote
                    /\ requests[r].by # "nobody" => requests'[r].by # "nobody"
    PROVE  IInv'
<1>1. TypeOK'
  BY DEF IInv, TypeOK
<1>2. ConsentGiven'
  BY DEF ConsentGiven, Consenting
<1>3. Keeps
  BY NilAssumption DEF Keeps
<1>4. \A x \in Worker : Reliable(x)'
  BY <1>3, ReliableAfter
<1> QED BY <1>1, <1>2, <1>4 DEF IInv

LEMMA ClosingInv ==
    ASSUME IInv, NEW w \in Worker, Reconcile(w) \/ Expire(w) \/ ExpireListed(w)
    PROVE  IInv'
<1> DEFINE rs == work[w].others
<1>1. ~Idle(w) /\ work[w] \in Transaction /\ work' = [work EXCEPT ![w] = Nil]
  BY DEF Reconcile, Expire, ExpireListed, Doing, Close, IInv, TypeOK, Idle
<1>2. \A r \in rs : requests[r] # Nil
  BY <1>1 DEF IInv, Reliable, Idle
<1>3. CASE Reconcile(w)
  <2>1. \A v \in work[w].of : streams[v] # Nil
    BY <1>1, <1>3 DEF Reconcile, IInv, Reliable, Doing, Idle
  <2>2. \A v \in Stream : streams[v] # Nil => streams[v] \in StreamRow
    BY DEF IInv, TypeOK
  <2>3. \A v \in Stream : streams[v] \in StreamRow =>
            [streams[v] EXCEPT !.on = FALSE, !.fresh = FALSE] \in StreamRow
    BY DEF StreamRow
  <2>4. streams' = [v \in Stream |->
            IF v \in work[w].of
            THEN [streams[v] EXCEPT !.on = FALSE, !.fresh = FALSE]
            ELSE streams[v]]
    BY <1>3 DEF Reconcile
  <2>5. /\ streams' \in [Stream -> StreamRow \cup {Nil}]
        /\ \A v \in Stream : streams[v] # Nil => streams'[v] # Nil
    BY <2>1, <2>2, <2>3, <2>4, NilAssumption DEF IInv, TypeOK
  <2>6. requests' = Closed(rs, "e_nosuch_stream") /\ "e_nosuch_stream" \in Terminal
    BY <1>3 DEF Reconcile, Terminal
  <2>7. /\ requests' \in [Request -> Row \cup {Nil}]
        /\ \A r \in Request :
            /\ requests[r] = Nil => requests'[r] = Nil
            /\ requests[r] # Nil =>
                /\ requests'[r] \in Row /\ Consenting(requests'[r])
                /\ requests'[r].remote = requests[r].remote
                /\ requests'[r].by = requests[r].by
    BY <1>2, <2>6, ClosedRows
  <2> QED BY <1>1, <2>5, <2>7, RowsKeep
<1>4. /\ "expired" \in Terminal
      /\ \A r \in Request :
            /\ requests[r] = Nil => Closed(rs, "expired")[r] = Nil
            /\ requests[r] # Nil =>
                /\ Closed(rs, "expired")[r] \in Row
                /\ Consenting(Closed(rs, "expired")[r])
                /\ Closed(rs, "expired")[r].remote = requests[r].remote
                /\ Closed(rs, "expired")[r].by = requests[r].by
      /\ Closed(rs, "expired") \in [Request -> Row \cup {Nil}]
  <2>1. "expired" \in Terminal
    BY DEF Terminal
  <2> QED BY <1>2, <2>1, ClosedRows
<1>5. CASE ExpireListed(w)
  <2>1. requests' = Closed(rs, "expired") /\ streams' = streams
    BY <1>5 DEF ExpireListed
  <2>2. streams' \in [Stream -> StreamRow \cup {Nil}]
    BY <2>1 DEF IInv, TypeOK
  <2> QED BY <1>1, <1>4, <2>1, <2>2, RowsKeep
<1>6. CASE Expire(w)
  <2> DEFINE after == Closed(rs, "expired")
  <2>1. /\ streams' = streams
        /\ requests' = [r \in Request |->
                IF requests[r] # Nil /\ requests[r].late > 0
                THEN [after[r] EXCEPT !.probe = "none"] ELSE after[r]]
    BY <1>6 DEF Expire
  <2>2. \A row \in Row : Consenting(row) =>
            LET less == [row EXCEPT !.probe = "none"] IN
            /\ less \in Row /\ Consenting(less)
            /\ less.remote = row.remote /\ less.by = row.by
    BY DEF Row, Exchange, Consenting
  <2>3. \A r \in Request :
            /\ requests[r] = Nil => after[r] = Nil
            /\ requests[r] # Nil =>
                /\ after[r] \in Row /\ Consenting(after[r])
                /\ after[r].remote = requests[r].remote
                /\ after[r].by = requests[r].by
    BY <1>4
  <2> HIDE DEF after
  <2>4. \A r \in Request :
            /\ requests[r] = Nil => requests'[r] = Nil
            /\ requests[r] # Nil =>
                /\ requests'[r] \in Row /\ Consenting(requests'[r])
                /\ requests'[r].remote = requests[r].remote
                /\ requests'[r].by = requests[r].by
    BY <2>1, <2>2, <2>3
  <2>5. requests' \in [Request -> Row \cup {Nil}]
    BY <2>1, <2>4
  <2>6. streams' \in [Stream -> StreamRow \cup {Nil}]
    BY <2>1 DEF IInv, TypeOK
  <2> QED BY <1>1, <2>1, <2>4, <2>5, <2>6, RowsKeep
<1> QED BY <1>3, <1>5, <1>6

LEMMA GrantedInv ==
    ASSUME IInv, NEW w \in Worker, NEW by \in {"device", "requester"},
           Granted(w, by), ~Idle(w),
           work[w].op \notin {"create", "reconcile", "expire", "list"},
           by = "requester" => work[w].op = "approve_remotely"
    PROVE  IInv'
<1> DEFINE req == work[w].req  new == Assigned(w, "approved")
<1>1. /\ req \in Request /\ requests[req] # Nil /\ requests[req] \in Row
      /\ by = "requester" => requests[req].remote
      /\ work[w] \in Transaction /\ \A r \in work[w].others : requests[r] # Nil
  BY DEF IInv, TypeOK, Reliable, Idle
<1>2. /\ streams' = streams /\ work' = [work EXCEPT ![w] = Nil]
      /\ requests' = [r \in Request |->
            IF r = req THEN [new EXCEPT !.due = 2, !.by = by]
            ELSE IF r \in work[w].others
                 THEN [requests[r] EXCEPT !.state = "redirected"]
                 ELSE requests[r]]
  BY DEF Granted, Close
<1>3. new \in Row /\ new.remote = requests[req].remote
  BY <1>1 DEF Assigned, Row, Live, Active
<1> HIDE DEF new
<1>4. /\ requests'[req] \in Row /\ Consenting(requests'[req])
      /\ requests'[req].remote = requests[req].remote
      /\ requests'[req].by # "nobody"
  <2> DEFINE row == [new EXCEPT !.due = 2, !.by = by]
  <2>1. /\ row \in Row /\ row.by = by /\ row.remote = new.remote
    <3>1. by \in {"nobody", "device", "requester"} /\ 2 \in 1 .. 2
      OBVIOUS
    <3>2. [new EXCEPT !.due = 2] \in Row
      BY <1>3, <3>1 DEF Row
    <3> QED BY <1>3, <3>1, <3>2 DEF Row
  <2>2. requests'[req] = row
    BY <1>1, <1>2
  <2> HIDE DEF row
  <2> QED BY <1>1, <1>3, <2>1, <2>2 DEF Consenting
<1>5. ASSUME NEW r \in Request \ {req}
      PROVE  /\ requests[r] = Nil => requests'[r] = Nil
             /\ requests[r] # Nil =>
                    /\ requests'[r] \in Row /\ Consenting(requests'[r])
                    /\ requests'[r].remote = requests[r].remote
                    /\ requests'[r].by = requests[r].by
  <2>1. CASE r \notin work[w].others
    BY <1>2, <2>1 DEF IInv, TypeOK, ConsentGiven, Consenting
  <2>2. CASE r \in work[w].others
    <3>1. /\ requests[r] # Nil /\ requests[r] \in Row /\ Consenting(requests[r])
          /\ requests'[r] = [requests[r] EXCEPT !.state = "redirected"]
      BY <1>1, <1>2, <2>2 DEF IInv, TypeOK, ConsentGiven, Consenting
    <3> QED BY <3>1 DEF Row, Consenting, Terminal, Active
  <2> QED BY <2>1, <2>2
<1>6. requests' \in [Request -> Row \cup {Nil}]
  <2>1. \A r \in Request : requests'[r] \in Row \cup {Nil}
    BY <1>4, <1>5
  <2> QED BY <1>2, <2>1
<1>7. \A r \in Request :
            /\ requests[r] = Nil => requests'[r] = Nil
            /\ requests[r] # Nil =>
                /\ requests'[r] \in Row /\ Consenting(requests'[r])
                /\ requests'[r].remote = requests[r].remote
                /\ requests[r].by # "nobody" => requests'[r].by # "nobody"
  BY <1>1, <1>4, <1>5
<1>8. streams' \in [Stream -> StreamRow \cup {Nil}]
  BY <1>2 DEF IInv, TypeOK
<1> HIDE DEF req
<1> QED BY <1>2, <1>6, <1>7, <1>8, RowsKeep

LEMMA CreateInv == ASSUME IInv, NEW w \in Worker, Create(w) PROVE IInv'
<1>1. /\ ~Idle(w) /\ work[w].op = "create" /\ work[w] \in Transaction
      /\ work[w].req \in Request /\ requests[work[w].req] = Nil
      /\ \A v \in work[w].of : streams[v] # Nil
  BY DEF Create, Doing, IInv, TypeOK, Reliable, Idle
<1>2. PICK v \in work[w].of :
        requests' = [requests EXCEPT ![work[w].req] =
            [stream |-> v, state |-> "pending", due |-> 1, late |-> 0,
             remote |-> streams[v].remote, by |-> "nobody",
             probe |-> "none", media |-> "none"]]
  BY DEF Create
<1>3. v \in Stream /\ streams[v].remote \in BOOLEAN
  BY <1>1 DEF IInv, TypeOK, Transaction, StreamRow
<1> DEFINE row == [stream |-> v, state |-> "pending", due |-> 1, late |-> 0,
                   remote |-> streams[v].remote, by |-> "nobody",
                   probe |-> "none", media |-> "none"]
<1>4. row \in Row /\ Consenting(row)
  BY <1>3 DEF Row, Consenting, Live, Waiting, Active, Exchange
<1> HIDE DEF row
<1>5. /\ requests' = [requests EXCEPT ![work[w].req] = row]
      /\ work' = [work EXCEPT ![w] = Nil] /\ streams' = streams
  BY <1>2 DEF row, Create, Close
<1>6. TypeOK'
  BY <1>1, <1>4, <1>5 DEF IInv, TypeOK
<1>7. ConsentGiven'
  BY <1>1, <1>4, <1>5 DEF IInv, TypeOK, ConsentGiven, Consenting
<1>8. Keeps
  BY <1>1, <1>5 DEF Keeps, IInv, TypeOK
<1>9. \A x \in Worker : Reliable(x)'
  BY <1>1, <1>5, <1>8, ReliableAfter DEF IInv, TypeOK, Doing
<1> QED BY <1>6, <1>7, <1>9 DEF IInv

\* Presence and time change no approval.
LEMMA PassingInv ==
    ASSUME IInv, NEW w,
           \/ \E d \in Device, v \in Stream, remote \in RemoteControl :
                Advertise(d, v, remote)
           \/ \E v \in Stream : Lapse(v)
           \/ \E r \in Request : Later(r)
           \/ w \in Worker /\ Abandon(w)
    PROVE  IInv'
<1>1. CASE \E d \in Device, v \in Stream, remote \in RemoteControl :
            Advertise(d, v, remote)
  <2>1. PICK d \in Device, v \in Stream, remote \in RemoteControl :
            Advertise(d, v, remote)
    BY <1>1
  <2> DEFINE row == [device |-> d, on |-> TRUE, fresh |-> TRUE, remote |-> remote]
  <2>2. row \in StreamRow
    BY VideoAssumption DEF StreamRow
  <2> HIDE DEF row
  <2>3. /\ streams' = [streams EXCEPT ![v] = row]
        /\ requests' = requests /\ work' = work
    BY <2>1 DEF Advertise, row
  <2>4. Keeps
    BY <2>2, <2>3, NilAssumption DEF Keeps, IInv, TypeOK
  <2> QED BY <2>2, <2>3, <2>4, ReliableAfter DEF IInv, TypeOK, ConsentGiven
<1>2. CASE \E v \in Stream : Lapse(v)
  <2>1. PICK v \in Stream : Lapse(v)
    BY <1>2
  <2>2. streams[v] \in StreamRow
    BY <2>1 DEF Lapse, IInv, TypeOK
  <2>3. [streams[v] EXCEPT !.fresh = FALSE] \in StreamRow
    BY <2>2 DEF StreamRow
  <2>4. /\ streams' = [streams EXCEPT ![v] = [streams[v] EXCEPT !.fresh = FALSE]]
        /\ requests' = requests /\ work' = work
    BY <2>1 DEF Lapse
  <2>5. Keeps
    BY <2>3, <2>4, NilAssumption DEF Keeps, IInv, TypeOK
  <2> QED BY <2>3, <2>4, <2>5, ReliableAfter DEF IInv, TypeOK, ConsentGiven
<1>3. CASE \E r \in Request : Later(r)
  <2>1. PICK r \in Request : Later(r)
    BY <1>3
  <2> DEFINE row == [requests[r] EXCEPT !.late = @ + 1]
  <2>2. requests[r] \in Row /\ Consenting(requests[r])
    BY <2>1 DEF Later, IInv, TypeOK, ConsentGiven, Consenting
  <2>3. /\ row \in Row /\ Consenting(row) /\ row.remote = requests[r].remote
        /\ row.by = requests[r].by
    BY <2>1, <2>2 DEF Later, Row, Consenting
  <2> HIDE DEF row
  <2>4. /\ requests' = [requests EXCEPT ![r] = row]
        /\ streams' = streams /\ work' = work
    BY <2>1 DEF Later, row
  <2>5. \A q \in Request : requests[q] # Nil => Consenting(requests[q])
    BY DEF IInv, ConsentGiven, Consenting
  <2> QED BY <2>1, <2>3, <2>4, <2>5, RowsKeep DEF IInv, TypeOK, Later
<1>4. CASE w \in Worker /\ Abandon(w)
  <2>1. /\ work' = [work EXCEPT ![w] = Nil] /\ streams' = streams
        /\ requests' = requests
    BY <1>4 DEF Abandon, Close
  <2>2. Keeps
    BY <2>1 DEF Keeps
  <2> QED BY <2>1, <2>2, ReliableAfter DEF IInv, TypeOK, ConsentGiven
<1> QED BY <1>1, <1>2, <1>3, <1>4

\* A transaction opens and knows what it has just read.
LEMMA OpenInv ==
    ASSUME IInv, NEW w \in Worker, NEW t \in Transaction, Open(w, t),
           \A q \in t.others : requests[q] # Nil,
           t.op \in {"create", "reconcile"} => \A v \in t.of : streams[v] # Nil,
           t.op = "create" =>
                /\ t.req \in Request /\ requests[t.req] = Nil
                /\ \A x \in Worker : Doing(x, "create") => work[x].req # t.req,
           t.op \notin {"create", "reconcile", "expire", "list"} =>
                /\ t.req \in Request /\ requests[t.req] # Nil /\ t.was \in Glance
                /\ t.op = "approve_remotely" => requests[t.req].remote
                /\ t.was.state \in Active \/ t.was.media
                     => requests[t.req].by # "nobody"
    PROVE  IInv'
<1>1. /\ work' = [work EXCEPT ![w] = t] /\ work[w] = Nil
      /\ streams' = streams /\ requests' = requests
  BY DEF Open, Idle
<1>2. TypeOK' /\ ConsentGiven'
  BY <1>1 DEF IInv, TypeOK, ConsentGiven
<1>3. work'[w] = t /\ \A x \in Worker \ {w} : work'[x] = work[x]
  BY <1>1 DEF IInv, TypeOK
<1>4. Reliable(w)'
  BY <1>1, <1>3 DEF Reliable, Doing, Idle
<1>5. ASSUME NEW x \in Worker \ {w}, work[x] # Nil
      PROVE  Reliable(x)'
  <2>1. Reliable(x) /\ (Doing(x, "create") => work[x].req # t.req \/ t.op # "create")
    BY DEF IInv
  <2>2. work[x].op = "create" =>
            \A y \in Worker \ {x} : Doing(y, "create")' => work'[y].req # work'[x].req
    BY <1>3, <1>5, <2>1 DEF Reliable, Doing, Idle
  <2> QED BY <1>1, <1>3, <1>5, <2>1, <2>2 DEF Reliable
<1>6. \A x \in Worker : Reliable(x)'
  BY <1>3, <1>4, <1>5 DEF Reliable
<1> QED BY <1>2, <1>6 DEF IInv

LEMMA ReadsInv == ASSUME IInv, NEW w \in Worker, Reads(w) PROVE IInv'
<1>1. CASE \E d \in Device, ss \in SUBSET Stream : ReadInventory(w, d, ss)
  <2>1. PICK d \in Device, ss \in SUBSET Stream : ReadInventory(w, d, ss)
    BY <1>1
  <2> DEFINE rs == {r \in In(Live) : requests[r].stream \in ss}
             t == Opened("reconcile", Nil, Nil, rs, ss)
  <2>2. rs \in SUBSET Request /\ \A r \in rs : requests[r] # Nil
    BY DEF In
  <2>3. t \in Transaction /\ t.op = "reconcile" /\ t.others = rs /\ t.of = ss
    BY <2>2 DEF Opened, Transaction
  <2>4. Open(w, t) /\ \A v \in ss : streams[v] # Nil
    BY <2>1 DEF ReadInventory
  <2> HIDE DEF t, rs
  <2> QED BY <2>2, <2>3, <2>4, OpenInv
<1>2. CASE \E v \in Stream, r \in Request : ReadStream(w, v, r)
  <2>1. PICK v \in Stream, r \in Request : ReadStream(w, v, r)
    BY <1>2
  <2> DEFINE t == Opened("create", r, Nil, {}, {v})
  <2>2. /\ t \in Transaction /\ t.op = "create" /\ t.others = {} /\ t.of = {v}
        /\ t.req = r
    BY DEF Opened, Transaction
  <2>3. /\ Open(w, t) /\ streams[v] # Nil /\ requests[r] = Nil
        /\ \A x \in Worker : Doing(x, "create") => work[x].req # r
    BY <2>1 DEF ReadStream
  <2> HIDE DEF t
  <2> QED BY <2>2, <2>3, OpenInv
<1>3. ASSUME NEW r \in Request, requests[r] # Nil
      PROVE  /\ Seen(requests[r]) \in Glance
             /\ Seen(requests[r]).state \in Active \/ Seen(requests[r]).media
                  => requests[r].by # "nobody"
  <2>1. requests[r] \in Row /\ Consenting(requests[r])
    BY <1>3 DEF IInv, TypeOK, ConsentGiven, Consenting
  <2>2. Overdue(requests[r]) \in BOOLEAN
    BY DEF Overdue
  <2> QED BY <2>1, <2>2 DEF Seen, Glance, Row, Consenting
<1>4. CASE \E r \in Request, op \in Op \cap Handlers : ReadRequest(w, r, op)
  <2>1. PICK r \in Request, op \in Op \cap Handlers : ReadRequest(w, r, op)
    BY <1>4
  <2> DEFINE was == Seen(requests[r])  t == Opened(op, r, was, {}, {})
  <2>2. /\ requests[r] # Nil /\ Open(w, t)
        /\ op \notin {"create", "reconcile", "expire", "list", "approve_remotely"}
    BY <2>1, HandlerNames DEF ReadRequest, Op, Decision
  <2>3. /\ was \in Glance
        /\ was.state \in Active \/ was.media => requests[r].by # "nobody"
    BY <1>3, <2>2
  <2> HIDE DEF was
  <2>4. /\ t \in Transaction /\ t.op = op /\ t.others = {} /\ t.req = r
        /\ t.was = was
    BY <2>3 DEF Opened, Transaction
  <2> HIDE DEF t
  <2> QED BY <2>2, <2>3, <2>4, OpenInv
<1>5. CASE \E r \in Request, op \in Decision \cap Handlers : ReadDecision(w, r, op)
  <2>1. PICK r \in Request, op \in Decision \cap Handlers : ReadDecision(w, r, op)
    BY <1>5
  <2> DEFINE was == Seen(requests[r])  rs == OtherViewers(r)
             ss == {requests[q].stream : q \in rs}
             t == Opened(op, r, was, rs, ss)
  <2>2. /\ requests[r] # Nil /\ Open(w, t)
        /\ op \notin {"create", "reconcile", "expire", "list"}
        /\ op = "approve_remotely" => requests[r].remote
    BY <2>1, HandlerNames DEF ReadDecision
  <2>3. /\ was \in Glance
        /\ was.state \in Active \/ was.media => requests[r].by # "nobody"
    BY <1>3, <2>2
  <2>4. rs \in SUBSET Request /\ \A q \in rs : requests[q] # Nil
    BY DEF OtherViewers, On, In
  <2>5. ss \in SUBSET Stream
    BY <2>4 DEF IInv, TypeOK, Row
  <2> HIDE DEF was, rs, ss
  <2>6. /\ t \in Transaction /\ t.op = op /\ t.others = rs /\ t.req = r
        /\ t.was = was
    BY <2>1, <2>3, <2>4, <2>5 DEF Opened, Transaction
  <2> HIDE DEF t
  <2> QED BY <2>2, <2>3, <2>4, <2>6, OpenInv
<1>6. CASE \E op \in {"expire", "list"} : ReadOverdue(w, op)
  <2>1. PICK op \in {"expire", "list"} : ReadOverdue(w, op)
    BY <1>6
  <2> DEFINE rs == {r \in In(Live) : Overdue(requests[r])}
             t == Opened(op, Nil, Nil, rs, {})
  <2>2. rs \in SUBSET Request /\ \A r \in rs : requests[r] # Nil
    BY DEF In
  <2>3. t \in Transaction /\ t.op = op /\ t.others = rs /\ t.of = {}
    BY <2>2 DEF Opened, Transaction
  <2>4. Open(w, t)
    BY <2>1 DEF ReadOverdue
  <2> HIDE DEF t, rs
  <2> QED BY <2>2, <2>3, <2>4, OpenInv
<1> QED BY <1>1, <1>2, <1>4, <1>5, <1>6 DEF Reads

LEMMA WritesInv == ASSUME IInv, NEW w \in Worker, Writes(w) PROVE IInv'
<1>1. CASE Approve(w) \/ ApproveRemotely(w)
  <2>1. /\ ~Idle(w) /\ work[w].op \in {"approve", "approve_remotely"}
        /\ \/ TimedOut(w, {})
           \/ \E by \in {"device", "requester"} :
                /\ Granted(w, by)
                /\ by = "requester" => work[w].op = "approve_remotely"
    BY <1>1 DEF Approve, ApproveRemotely, Doing
  <2> QED BY <2>1, TimedOutInv, GrantedInv
<1> QED BY <1>1, OneRequest, CreateInv, ClosingInv DEF Writes

LEMMA NextInv == IInv /\ [Next]_vars => IInv'
<1> SUFFICES ASSUME IInv, [Next]_vars PROVE IInv'
  OBVIOUS
<1>1. CASE \E w \in Worker : Reads(w) \/ Writes(w) \/ Abandon(w)
  BY <1>1, ReadsInv, WritesInv, PassingInv
<1>2. CASE \/ \E d \in Device, v \in Stream, remote \in RemoteControl :
                Advertise(d, v, remote)
           \/ \E v \in Stream : Lapse(v)
           \/ \E r \in Request : Later(r)
  BY <1>2, PassingInv
<1>3. CASE UNCHANGED vars
  BY <1>3 DEF vars, IInv, TypeOK, ConsentGiven, Reliable, Doing, Idle
<1> QED BY <1>1, <1>2, <1>3 DEF Next

LEMMA Invariance == Spec => []IInv
<1>1. Init => IInv
  BY InitInv
<1>2. IInv /\ [Next]_vars => IInv'
  BY NextInv
<1> QED BY <1>1, <1>2, PTL DEF Spec

\* The rows and the open transactions have their types.
THEOREM VideoTypeCorrect == Spec => []TypeOK
<1>1. IInv => TypeOK
  BY DEF IInv
<1> QED BY <1>1, Invariance, PTL

\* No media without consent, however many handlers overlap and in whatever
\* order they commit: of mark_video_streaming, start_video_media and
\* record_video_media_answer, and of the requester's own approval.
THEOREM ConsentAlwaysGiven == Spec => []ConsentGiven
<1>1. IInv => ConsentGiven
  BY DEF IInv
<1> QED BY <1>1, Invariance, PTL

-----------------------------------------------------------------------------
(* What a step does to the state of a row *)

\* Handler w may bring its request into a live state, for it found it in one.
Revives(w) ==
    /\ work[w].op \in {"offer", "result", "started", "approve",
                       "approve_remotely"}
    /\ InTime(w)

\* The step ends handler w, which ends the request or revives it.
Ends(w, r) ==
    /\ ~Idle(w) /\ work' = [work EXCEPT ![w] = Nil]
    /\ requests'[r].state \in Terminal \/ (work[w].req = r /\ Revives(w))

RowStep(r) ==
    requests'[r].state = requests[r].state \/ \E w \in Worker : Ends(w, r)

\* A handler of one request that saves its row.
LEMMA SaveStep ==
    ASSUME IInv, NEW w \in Worker, ~Idle(w), NEW row, Save(w, row),
           work[w].op \notin {"create", "reconcile", "expire", "list"},
           \/ row.state \in Terminal
           \/ row.state = requests[work[w].req].state
           \/ Revives(w),
           NEW r \in Request, requests[r] # Nil
    PROVE  RowStep(r)
<1>1. /\ work[w].req \in Request
      /\ requests' = [requests EXCEPT ![work[w].req] = row]
      /\ work' = [work EXCEPT ![w] = Nil]
  BY DEF IInv, TypeOK, Reliable, Idle, Save, Close
<1>2. CASE r # work[w].req
  BY <1>1, <1>2 DEF IInv, TypeOK, RowStep
<1>3. CASE r = work[w].req
  <2>1. requests'[r] = row
    BY <1>1, <1>3 DEF IInv, TypeOK
  <2>2. row.state = requests[r].state \/ Ends(w, r)
    BY <1>1, <1>3, <2>1 DEF Ends
  <2>. QED  BY <2>1, <2>2 DEF RowStep
<1> QED BY <1>2, <1>3

\* The state a handler of one request gives its row.
LEMMA AssignedState ==
    ASSUME IInv, NEW w \in Worker, ~Idle(w), NEW state,
           work[w].op \notin {"create", "reconcile", "expire", "list"}
    PROVE  /\ requests[work[w].req] \in Row
           /\ DOMAIN Assigned(w, state) = DOMAIN requests[work[w].req]
           /\ Assigned(w, state).state \in {state, requests[work[w].req].state}
<1>1. requests[work[w].req] \in Row
  BY DEF IInv, TypeOK, Reliable, Idle
<1> QED BY <1>1 DEF Assigned, Row

LEMMA WithoutState ==
    ASSUME NEW w, NEW xs, NEW row \in Row
    PROVE  Without(w, row, xs).state = row.state
  BY DEF Without, Row

\* A handler saves the row with an assigned state, with or without exchanges.
LEMMA AssignedStep ==
    ASSUME IInv, NEW w \in Worker, ~Idle(w), NEW state,
           work[w].op \notin {"create", "reconcile", "expire", "list"},
           state \in Terminal \/ Revives(w),
           NEW row, Save(w, row), row.state = Assigned(w, state).state,
           NEW r \in Request, requests[r] # Nil
    PROVE  RowStep(r)
  BY AssignedState, SaveStep

LEMMA TimedOutStep ==
    ASSUME IInv, NEW w \in Worker, ~Idle(w), NEW xs, TimedOut(w, xs),
           work[w].op \notin {"create", "reconcile", "expire", "list"},
           NEW r \in Request, requests[r] # Nil
    PROVE  RowStep(r)
<1> DEFINE late == Assigned(w, "expired")
<1>1. late \in Row
  BY AssignedRow DEF Live, Active, Waiting, Terminal
<1>2. "expired" \in Terminal
  BY DEF Terminal
<1>3. Save(w, Without(w, late, xs))
  BY DEF TimedOut
<1> QED BY <1>1, <1>2, <1>3, WithoutState, AssignedStep

LEMMA OneRequestStep ==
    ASSUME IInv, NEW w \in Worker,
           \/ Cancel(w) \/ Poll(w) \/ StartPreflight(w) \/ StartMedia(w)
           \/ MarkStreaming(w) \/ Stop(w) \/ PreflightAnswer(w)
           \/ PreflightResult(w) \/ Unavailable(w) \/ MediaAnswer(w)
           \/ Terminate(w) \/ Decline(w),
           NEW r \in Request, requests[r] # Nil
    PROVE  RowStep(r)
<1> DEFINE old == requests[work[w].req]
<1>1. /\ ~Idle(w)
      /\ work[w].op \notin {"create", "reconcile", "expire", "list"}
  BY DEF Cancel, Poll, StartPreflight, StartMedia, MarkStreaming, Stop,
         PreflightAnswer, PreflightResult, Unavailable, MediaAnswer, Terminate,
         Decline, Doing
<1>2. old \in Row
  BY <1>1 DEF IInv, TypeOK, Reliable, Idle
<1>3. {"expired", "cancelled", "stopped", "e_nosuch_stream", "redirected",
       "declined"} \subseteq Terminal
  BY DEF Terminal
<1>4. ASSUME NEW state \in Terminal, NEW xs,
             Save(w, Without(w, Assigned(w, state), xs))
      PROVE  RowStep(r)
  <2>1. Assigned(w, state) \in Row
    BY <1>1, AssignedRow DEF Terminal, Active, Live
  <2> QED BY <1>1, <1>4, <2>1, WithoutState, AssignedStep
<1>5. ASSUME NEW state \in Terminal, Save(w, Assigned(w, state))
      PROVE  RowStep(r)
  BY <1>1, <1>5, AssignedStep
<1>6. ASSUME NEW x \in {"offer", "answer", "none"},
             \/ Save(w, [old EXCEPT !.media = x])
             \/ Save(w, [old EXCEPT !.probe = x])
      PROVE  RowStep(r)
  BY <1>1, <1>2, <1>6, SaveStep DEF Row
<1>7. CASE \E xs : TimedOut(w, xs)
  BY <1>1, <1>7, TimedOutStep
<1>8. ASSUME Revives(w), NEW row, Save(w, row)
      PROVE  RowStep(r)
  BY <1>1, <1>8, SaveStep
<1> HIDE DEF old
<1>9. CASE Cancel(w)
  BY <1>3, <1>4, <1>7, <1>9 DEF Cancel
<1>10. CASE Poll(w)
  BY <1>7, <1>10 DEF Poll
<1>11. CASE StartPreflight(w)
  BY <1>7, <1>8, <1>11 DEF StartPreflight, Doing, Revives
<1>12. CASE StartMedia(w)
  BY <1>6, <1>7, <1>12 DEF StartMedia, old
<1>13. CASE MarkStreaming(w)
  BY <1>7, <1>8, <1>13 DEF MarkStreaming, Doing, Revives
<1>14. CASE Stop(w)
  BY <1>3, <1>4, <1>14 DEF Stop
<1>15. CASE PreflightAnswer(w)
  BY <1>6, <1>15 DEF PreflightAnswer, old
<1>16. CASE PreflightResult(w)
  BY <1>7, <1>8, <1>16 DEF PreflightResult, Doing, Revives
<1>17. CASE Unavailable(w)
  <2> DEFINE new == Assigned(w, "e_nosuch_stream")
             row == [new EXCEPT !.probe = "none", !.media = "none"]
  <2>1. new \in Row
    BY <1>1, <1>3, AssignedRow DEF Terminal, Active, Live
  <2>2. Save(w, row)
    BY <1>17 DEF Unavailable
  <2> HIDE DEF new
  <2>3. row.state = new.state
    BY <2>1 DEF Row
  <2> QED BY <1>1, <1>3, <2>2, <2>3, AssignedStep DEF new
<1>18. CASE MediaAnswer(w)
  BY <1>6, <1>7, <1>18 DEF MediaAnswer, old
<1>19. CASE Terminate(w)
  BY <1>3, <1>4, <1>5, <1>19 DEF Terminate
<1>20. CASE Decline(w)
  BY <1>3, <1>5, <1>7, <1>20 DEF Decline
<1> QED BY <1>9, <1>10, <1>11, <1>12, <1>13, <1>14, <1>15, <1>16, <1>17, <1>18,
           <1>19, <1>20

LEMMA GrantedStep ==
    ASSUME IInv, NEW w \in Worker, Approve(w) \/ ApproveRemotely(w),
           NEW r \in Request, requests[r] # Nil
    PROVE  RowStep(r)
<1>1. /\ ~Idle(w) /\ work[w].op \in {"approve", "approve_remotely"}
      /\ work[w].op \notin {"create", "reconcile", "expire", "list"}
  BY DEF Approve, ApproveRemotely, Doing
<1>2. CASE TimedOut(w, {})
  BY <1>1, <1>2, TimedOutStep
<1>3. ASSUME NEW by \in {"device", "requester"}, Granted(w, by)
      PROVE  RowStep(r)
  <2>1. /\ work' = [work EXCEPT ![w] = Nil] /\ Revives(w)
        /\ r \notin {work[w].req} \cup work[w].others => requests'[r] = requests[r]
        /\ r # work[w].req /\ r \in work[w].others
                => requests'[r] = [requests[r] EXCEPT !.state = "redirected"]
    BY <1>1, <1>3 DEF Granted, Close, Revives
  <2>2. CASE r = work[w].req
    BY <1>1, <2>1, <2>2 DEF RowStep, Ends
  <2>3. CASE r # work[w].req /\ r \in work[w].others
    <3>1. requests[r] \in Row
      BY DEF IInv, TypeOK
    <3>2. requests'[r].state = "redirected"
      BY <2>1, <2>3, <3>1 DEF Row
    <3> QED BY <1>1, <2>1, <3>2 DEF RowStep, Ends, Terminal
  <2> QED BY <2>1, <2>2, <2>3 DEF RowStep
<1> QED BY <1>2, <1>3 DEF Approve, ApproveRemotely

LEMMA ClosingStep ==
    ASSUME IInv, NEW w \in Worker, Reconcile(w) \/ Expire(w) \/ ExpireListed(w),
           NEW r \in Request, requests[r] # Nil
    PROVE  RowStep(r)
<1>1. ~Idle(w) /\ work' = [work EXCEPT ![w] = Nil]
  BY DEF Reconcile, Expire, ExpireListed, Doing, Close
<1>2. PICK state \in Terminal :
        \/ requests'[r] = Closed(work[w].others, state)[r]
        \/ requests'[r] = [Closed(work[w].others, state)[r] EXCEPT !.probe = "none"]
  BY DEF Reconcile, Expire, ExpireListed, Terminal
<1>3. requests[r] \in Row
  BY DEF IInv, TypeOK
<1>4. CASE r \in work[w].others
  <2> DEFINE row == [requests[r] EXCEPT !.state = state, !.probe = "none",
                                        !.media = "none"]
  <2>1. Closed(work[w].others, state)[r] = row
    BY <1>4 DEF Closed
  <2>2. row.state = state /\ row \in Row
    BY <1>3 DEF Row, Exchange
  <2> HIDE DEF row
  <2>3. requests'[r].state = state
    BY <1>2, <2>1, <2>2 DEF Row
  <2> QED BY <1>1, <2>3 DEF RowStep, Ends
<1>5. CASE r \notin work[w].others
  <2>1. Closed(work[w].others, state)[r] = requests[r]
    BY <1>5 DEF Closed
  <2> QED BY <1>2, <1>3, <2>1 DEF RowStep, Row
<1> QED BY <1>4, <1>5

LEMMA NextStep ==
    ASSUME IInv, Next, NEW r \in Request, requests[r] # Nil PROVE RowStep(r)
<1>1. requests[r] \in Row
  BY DEF IInv, TypeOK
<1>2. ASSUME requests'[r] = requests[r] PROVE RowStep(r)
  BY <1>2 DEF RowStep
<1>3. ASSUME NEW w \in Worker, Create(w) PROVE RowStep(r)
  <2>1. r # work[w].req /\ work[w].req \in Request
    BY <1>3 DEF Create, Doing, Idle, IInv, Reliable
  <2> QED BY <1>2, <1>3, <2>1 DEF Create, IInv, TypeOK
<1>4. ASSUME NEW w \in Worker, Reads(w) \/ Abandon(w) PROVE RowStep(r)
  <2>1. requests' = requests
    BY <1>4 DEF Reads, ReadInventory, ReadStream, ReadRequest, ReadDecision,
                ReadOverdue, Open, Abandon
  <2> QED BY <1>2, <2>1
<1>5. ASSUME NEW q \in Request, Later(q) PROVE RowStep(r)
  BY <1>1, <1>5 DEF Later, IInv, TypeOK, RowStep, Row
<1>6. CASE \/ \E d \in Device, v \in Stream, remote \in RemoteControl :
                Advertise(d, v, remote)
           \/ \E v \in Stream : Lapse(v)
  BY <1>2, <1>6 DEF Advertise, Lapse
<1> QED BY <1>3, <1>4, <1>5, <1>6, OneRequestStep, GrantedStep, ClosingStep
        DEF Next, Writes

\* A step that ends a transaction is its last one, or gives it up.
LEMMA EndsByWriting ==
    ASSUME IInv, Next, NEW w \in Worker, ~Idle(w), work' = [work EXCEPT ![w] = Nil]
    PROVE  Writes(w) \/ Abandon(w)
<1>1. work[w] # Nil /\ work'[w] = Nil
  BY DEF IInv, TypeOK, Idle
<1>2. ASSUME NEW x \in Worker, Reads(x) PROVE FALSE
  <2>1. PICK t : Open(x, t)
    BY <1>2 DEF Reads, ReadInventory, ReadStream, ReadRequest, ReadDecision,
                ReadOverdue
  <2> QED BY <1>1, <2>1 DEF Open, IInv, TypeOK, Idle
<1>3. ASSUME NEW x \in Worker, Writes(x) \/ Abandon(x)
      PROVE  work' = [work EXCEPT ![x] = Nil]
  BY <1>3 DEF Writes, Reconcile, Create, Cancel, Poll, StartPreflight,
     StartMedia, MarkStreaming, Stop, PreflightAnswer, PreflightResult,
     Unavailable, MediaAnswer, Terminate, Approve, ApproveRemotely, Decline,
     Expire, ExpireListed, TimedOut, Granted, Save, Close, Abandon
<1>4. work' # work
  BY <1>1
<1>5. PICK x \in Worker : Writes(x) \/ Abandon(x)
  BY <1>2, <1>4 DEF Next, Advertise, Lapse, Later
<1>6. x = w
  BY <1>1, <1>3, <1>5 DEF IInv, TypeOK
<1> QED BY <1>5, <1>6

\* A request that ends comes back only by a handler that overlapped.
LEMMA EndedStep ==
    ASSUME IInv, Next, NEW r \in In(Terminal)
    PROVE  requests'[r].state \in Terminal \/ \E w \in Worker : Overtaken(w, r)
<1>1. r \in Request /\ requests[r] # Nil /\ requests[r].state \in Terminal
  BY DEF In
<1>2. RowStep(r)
  BY <1>1, NextStep
<1>3. ASSUME NEW w \in Worker, Ends(w, r), requests'[r].state \notin Terminal
      PROVE  Overtaken(w, r)
  <2>1. /\ ~Idle(w) /\ work[w].req = r /\ Revives(w)
        /\ work' = [work EXCEPT ![w] = Nil]
    BY <1>3 DEF Ends
  <2>2. Writes(w)
    BY <1>1, <1>3, <2>1, EndsByWriting DEF Abandon
  <2>3. /\ ~work[w].was.overdue /\ work[w].was.state \in GoesOn[work[w].op]
        /\ work[w].op \in {"offer", "result", "started", "approve",
                           "approve_remotely"}
    BY <2>1 DEF Revives, InTime, Fits
  <2>4. work[w].was.state \in Live
    BY <2>3 DEF GoesOn, Live, Waiting, Active
  <2> QED BY <2>1, <2>2, <2>3, <2>4 DEF Overtaken
<1> QED BY <1>1, <1>2, <1>3 DEF RowStep

\* The end of a request is final for every handler that reads it afterwards:
\* only start_video_preflight, record_video_preflight_result,
\* mark_video_streaming and an approval that had read it while it was live and
\* in time, and write after its end, bring it back.
THEOREM EndedRequestsStay == Spec => EndedStaysEnded
<1>1. IInv /\ [Next]_vars =>
        [\A r \in In(Terminal) :
            \/ requests'[r].state \in Terminal
            \/ \E w \in Worker : Overtaken(w, r)]_vars
  BY EndedStep
<1> QED BY <1>1, Invariance, PTL DEF Spec, EndedStaysEnded

=============================================================================
