------------------------ MODULE RecordingDownloadProofs ------------------------
(* What holds of any number of requests, requesters, recordings and jobs. *)
EXTENDS RecordingDownload, TLAPS

\* A job is about a request that exists.
HasRow == \A j \in Job : jobs[j] # Nil => rows[jobs[j].request] # Nil

IInv == TypeOK /\ HasRow

Rows == [Request -> Row \cup {Nil}]

\* What a step may make of a row: it stays the same request; one that has ended
\* may only expire; one that is ready may only end, and one never goes back to
\* awaiting its approval; the deadline of neither is put off.
MayBecome(old, new) ==
    /\ new \in Row
    /\ new.recording = old.recording /\ new.requester = old.requester
    /\ old.state \in Ended => new.state \in {old.state, "expired"}
    /\ new.state = "awaiting_approval" =>
            old.state = "awaiting_approval" /\ (old.late => new.late)
    /\ old.state = "ready" => new.state \in Ended \cup {"ready"}
    /\ old.state = "ready" /\ new.state = "ready" => (old.late => new.late)

Keeps ==
    /\ rows' \in Rows
    /\ \A r \in Request : rows[r] # Nil => MayBecome(rows[r], rows'[r])

Jobs == [Job -> [step : Step, request : Request] \cup {Nil}]

LEMMA InitInv == Init => IInv
  BY DEF Init, IInv, TypeOK, HasRow, File

LEMMA NothingLost ==
    ASSUME Keeps
    PROVE  \A r \in Request : rows[r] # Nil => rows'[r] # Nil
  BY NilAssumption DEF Keeps, MayBecome

\* A job that starts, goes on or ends is about a request that exists.
LEMMA JobsStay ==
    ASSUME IInv, Keeps, NEW j \in Job,
           \/ jobs' = jobs
           \/ \E step \in Step, r \in Request : Starts(j, step, r) /\ rows[r] # Nil
           \/ \E step \in Step : GoesTo(j, step) /\ jobs[j] # Nil
           \/ Ends(j)
    PROVE  jobs' \in Jobs /\ HasRow'
<1>1. CASE jobs' = jobs
  BY <1>1, NothingLost DEF IInv, TypeOK, HasRow, Jobs
<1>2. CASE \E step \in Step, r \in Request : Starts(j, step, r) /\ rows[r] # Nil
  BY <1>2, NothingLost DEF IInv, TypeOK, HasRow, Jobs, Starts
<1>3. CASE \E step \in Step : GoesTo(j, step) /\ jobs[j] # Nil
  BY <1>3, NothingLost DEF IInv, TypeOK, HasRow, Jobs, GoesTo
<1>4. CASE Ends(j)
  BY <1>4, NothingLost DEF IInv, TypeOK, HasRow, Jobs, Ends
<1> QED
  BY <1>1, <1>2, <1>3, <1>4

\* A step that changes one row.
LEMMA OneRow ==
    ASSUME IInv, NEW r \in Request, NEW new \in Row,
           rows' = [rows EXCEPT ![r] = new],
           rows[r] # Nil => MayBecome(rows[r], new)
    PROVE  Keeps
<1>1. rows \in Rows /\ \A q \in Request : rows[q] # Nil => rows[q] \in Row
  BY DEF IInv, TypeOK, Rows
<1>2. rows' \in Rows
  BY <1>1 DEF Rows
<1>3. \A q \in Request : rows[q] # Nil => MayBecome(rows[q], rows[q])
  BY <1>1 DEF MayBecome
<1>4. \A q \in Request : rows'[q] = IF q = r THEN new ELSE rows[q]
  BY <1>1 DEF Rows
<1> QED
  BY <1>2, <1>3, <1>4 DEF Keeps

LEMMA NoRow ==
    ASSUME IInv, UNCHANGED rows
    PROVE  Keeps
<1>1. rows \in Rows /\ \A q \in Request : rows[q] # Nil => rows[q] \in Row
  BY DEF IInv, TypeOK, Rows
<1> QED
  BY <1>1 DEF Keeps, MayBecome

\* A row gets a state, a deadline and a file.
Written(r, state, late, stored) ==
    rows' = [rows EXCEPT ![r].state = state, ![r].late = late,
                         ![r].stored = stored]

LEMMA RowChanges ==
    ASSUME IInv, NEW r \in Request, rows[r] # Nil,
           NEW state \in Unsettled \cup {"ready"} \cup Ended,
           NEW late \in BOOLEAN, NEW stored \in BOOLEAN,
           Written(r, state, late, stored),
           rows[r].state \in Ended => state \in {rows[r].state, "expired"},
           state = "awaiting_approval" =>
                rows[r].state = "awaiting_approval" /\ (rows[r].late => late),
           rows[r].state = "ready" => state \in Ended \cup {"ready"},
           rows[r].state = "ready" /\ state = "ready" => (rows[r].late => late)
    PROVE  Keeps
<1> DEFINE new == [rows[r] EXCEPT !.state = state, !.late = late, !.stored = stored]
<1>1. rows \in Rows /\ rows[r] \in Row
  BY DEF IInv, TypeOK, Rows
<1>2. new \in Row /\ MayBecome(rows[r], new)
  BY <1>1 DEF Row, MayBecome
<1>3. rows' = [rows EXCEPT ![r] = new]
  BY <1>1 DEF Rows, Written
<1> QED
  BY <1>2, <1>3, OneRow

\* The request of a job.
LEMMA JobsRequest ==
    ASSUME IInv, NEW j \in Job, jobs[j] # Nil
    PROVE  /\ jobs[j].request \in Request /\ rows[jobs[j].request] # Nil
           /\ rows[jobs[j].request] \in Row
  BY DEF IInv, TypeOK, HasRow

LEMMA RowsStep == IInv /\ [Next]_vars => Keeps
<1> SUFFICES ASSUME IInv, [Next]_vars PROVE Keeps
  OBVIOUS
<1> USE DEF Unsettled, Ended
<1>0. CASE UNCHANGED rows
  BY <1>0, NoRow
<1>1. ASSUME NEW r \in Request, NEW u \in User, NEW v \in Recording,
             NEW remote \in BOOLEAN, Create(r, u, v, remote)
      PROVE  Keeps
  <2> DEFINE new == [recording |-> v, requester |-> u,
                     state |-> IF remote THEN "approved" ELSE "awaiting_approval",
                     late |-> FALSE, stored |-> FALSE]
  <2>1. new \in Row
    BY DEF Row
  <2>2. rows' = [rows EXCEPT ![r] = new] /\ rows[r] = Nil
    BY <1>1 DEF Create
  <2> HIDE DEF new
  <2> QED
    BY <2>1, <2>2, OneRow
<1>2. ASSUME NEW r \in Request, rows[r] # Nil, NEW state, NEW late \in BOOLEAN,
             Becomes(r, state, late), state \in {"approved", "declined", "expired"},
             rows[r].state \notin Ended \/ state = "expired",
             rows[r].state = "ready" => state # "approved"
      PROVE  Keeps
  <2>1. rows[r] \in Row
    BY <1>2 DEF IInv, TypeOK
  <2>2. Written(r, state, late, rows[r].stored)
    BY <1>2, <2>1 DEF Becomes, Written, IInv, TypeOK, Row
  <2>3. rows[r].stored \in BOOLEAN
    BY <2>1 DEF Row
  <2> QED
    BY <1>2, <2>2, <2>3, RowChanges
<1>3. ASSUME NEW r \in Request, NEW approved \in BOOLEAN, Decide(r, approved)
      PROVE  Keeps
  <2>1. PICK late \in Noticed(r) :
            /\ late => Becomes(r, "expired", TRUE)
            /\ ~late => /\ rows[r].state \in {"awaiting_approval", "approved"}
                        /\ Becomes(r, Decided(approved), ~approved)
    BY <1>3 DEF Decide
  <2>2. rows[r] # Nil
    BY <1>3 DEF Decide
  <2>3. CASE late
    BY <1>2, <2>1, <2>2, <2>3
  <2>4. CASE ~late
    <3>1. Decided(approved) \in {"approved", "declined", "expired"}
      BY DEF Decided
    <3>2. /\ Becomes(r, Decided(approved), ~approved)
          /\ rows[r].state \notin Ended \cup {"ready"}
      BY <2>1, <2>4
    <3> QED
      BY <1>2, <2>2, <3>1, <3>2
  <2> QED
    BY <2>3, <2>4
<1>4. ASSUME NEW j \in Job, NEW r \in Request, BeginUpload(j, r)
      PROVE  Keeps
  <2>1. rows[r] # Nil /\ rows[r].state \notin Ended \cup {"ready"}
    BY <1>4 DEF BeginUpload, In
  <2>2. Becomes(r, "approved", FALSE) \/ UNCHANGED rows
    BY <1>4 DEF BeginUpload
  <2> QED
    BY <1>0, <1>2, <2>1, <2>2
<1>5. ASSUME NEW j \in Job, MarkUploading(j)
      PROVE  Keeps
  <2> DEFINE r == jobs[j].request
  <2>1. r \in Request /\ rows[r] # Nil /\ rows[r] \in Row
    BY <1>5, JobsRequest DEF MarkUploading, At
  <2>2. PICK late \in Noticed(r) :
            /\ late => Becomes(r, "expired", TRUE)
            /\ ~late => /\ rows[r].state \in {"approved", "uploading"}
                        /\ rows' = [rows EXCEPT ![r].state = "uploading"]
    BY <1>5 DEF MarkUploading
  <2> HIDE DEF r
  <2>3. CASE late
    BY <1>2, <2>1, <2>2, <2>3
  <2>4. CASE ~late
    <3>1. Written(r, "uploading", rows[r].late, rows[r].stored)
      BY <2>1, <2>2, <2>4 DEF Written, IInv, TypeOK, Row
    <3>2. rows[r].late \in BOOLEAN /\ rows[r].stored \in BOOLEAN
      BY <2>1 DEF Row
    <3> QED
      BY <2>1, <2>2, <2>4, <3>1, <3>2, RowChanges
  <2> QED
    BY <2>3, <2>4
<1>6. ASSUME NEW j \in Job, CompleteUpload(j)
      PROVE  Keeps
  <2> DEFINE r == jobs[j].request
  <2>1. r \in Request /\ rows[r] # Nil
    BY <1>6, JobsRequest DEF CompleteUpload, At
  <2>2. PICK late \in Noticed(r) :
            /\ late => Becomes(r, "expired", TRUE)
            /\ ~late =>
                /\ rows[r].state \in {"approved", "uploading"}
                /\ rows' = [rows EXCEPT ![r].state = "ready", ![r].late = FALSE,
                                       ![r].stored = TRUE]
    BY <1>6 DEF CompleteUpload
  <2> HIDE DEF r
  <2>3. CASE late
    BY <1>2, <2>1, <2>2, <2>3
  <2>4. CASE ~late
    <3>1. /\ Written(r, "ready", FALSE, TRUE)
          /\ rows[r].state \notin Ended \cup {"ready"}
      BY <2>2, <2>4 DEF Written
    <3> QED
      BY <2>1, <3>1, RowChanges
  <2> QED
    BY <2>3, <2>4
<1>7. ASSUME NEW j \in Job, Deliver(j)
      PROVE  Keeps
  <2> DEFINE r == jobs[j].request
  <2>1. r \in Request /\ rows[r] # Nil
    BY <1>7, JobsRequest DEF Deliver, At
  <2>2. \/ UNCHANGED rows
        \/ /\ rows[r].state = "ready"
           /\ rows' = [rows EXCEPT ![r].state = "downloaded", ![r].late = TRUE,
                                  ![r].stored = FALSE]
    BY <1>7 DEF Deliver
  <2> HIDE DEF r
  <2>3. CASE UNCHANGED rows
    BY <1>0, <2>3
  <2>4. CASE ~UNCHANGED rows
    <3>1. Written(r, "downloaded", TRUE, FALSE) /\ rows[r].state \notin Ended
      BY <2>2, <2>4 DEF Written
    <3> QED
      BY <2>1, <3>1, RowChanges
  <2> QED
    BY <2>3, <2>4
<1>8. ASSUME NEW j \in Job, ExpireLate(j)
      PROVE  Keeps
  <2> DEFINE r == jobs[j].request
  <2>1. r \in Request /\ rows[r] # Nil /\ rows[r] \in Row
    BY <1>8, JobsRequest DEF ExpireLate, At
  <2>2. rows' = [rows EXCEPT ![r].state = "expired"]
    BY <1>8 DEF ExpireLate
  <2> HIDE DEF r
  <2>3. Becomes(r, "expired", rows[r].late) /\ rows[r].late \in BOOLEAN
    BY <2>1, <2>2 DEF Becomes, IInv, TypeOK, Row
  <2> QED
    BY <1>2, <2>1, <2>3
<1>9. ASSUME ExpireSpools
      PROVE  Keeps
  <2>1. \A r \in Request : rows'[r] =
            IF r \in Abandoned
            THEN [rows[r] EXCEPT !.state = "expired", !.stored = FALSE]
            ELSE rows[r]
    BY <1>9 DEF ExpireSpools
  <2>2. \A r \in Request : rows[r] # Nil => rows[r] \in Row
    BY DEF IInv, TypeOK
  <2>3. \A r \in Abandoned : r \in Request /\ rows[r] # Nil
    BY DEF Abandoned, In
  <2>4. ASSUME NEW r \in Request, rows[r] # Nil
        PROVE  MayBecome(rows[r], rows'[r])
    BY <2>1, <2>2, <2>4 DEF MayBecome, Row
  <2>5. ASSUME NEW r \in Request
        PROVE  rows'[r] \in Row \cup {Nil}
    BY <2>1, <2>3, <2>4 DEF MayBecome
  <2>6. rows' = [r \in Request |-> rows'[r]]
    BY <1>9 DEF ExpireSpools
  <2>7. rows' \in Rows
    BY <2>5, <2>6 DEF Rows
  <2> QED
    BY <2>4, <2>7 DEF Keeps
<1>10. ASSUME NEW r \in Request, Later(r)
       PROVE  Keeps
  <2>1. rows[r] # Nil /\ rows[r] \in Row /\ rows' = [rows EXCEPT ![r].late = TRUE]
    BY <1>10 DEF Later, IInv, TypeOK
  <2>2. Written(r, rows[r].state, TRUE, rows[r].stored)
    BY <2>1 DEF Written, IInv, TypeOK, Row
  <2>3. /\ rows[r].state \in Unsettled \cup {"ready"} \cup Ended
        /\ rows[r].stored \in BOOLEAN
    BY <2>1 DEF Row
  <2> QED
    BY <2>1, <2>2, <2>3, RowChanges
<1> HIDE DEF Unsettled, Ended
<1> QED
  BY <1>0, <1>1, <1>3, <1>4, <1>5, <1>6, <1>7, <1>8, <1>9, <1>10
  DEF Next, Goes, vars, WriteChunk, ReplaceFile, OpenCopy, RemoveDelivered,
      ReadLate, RemoveExpired, Age, AgePart, Abandon, AbandonSweep

LEMMA StepInv == IInv /\ [Next]_vars => IInv'
<1> SUFFICES ASSUME IInv, [Next]_vars PROVE IInv'
  OBVIOUS
<1>0. Keeps
  BY RowsStep
<1>1. jobs' \in Jobs /\ HasRow'
  <2>1. CASE jobs' = jobs
    BY <1>0, <2>1, NothingLost DEF IInv, TypeOK, HasRow, Jobs
  <2>2. ASSUME NEW j \in Job, Ends(j)
        PROVE  jobs' \in Jobs /\ HasRow'
    BY <1>0, <2>2, JobsStay
  <2>3. ASSUME NEW j \in Job, NEW step \in Step, GoesTo(j, step), jobs[j] # Nil
        PROVE  jobs' \in Jobs /\ HasRow'
    BY <1>0, <2>3, JobsStay
  <2>4. ASSUME NEW j \in Job, NEW r \in Request,
               BeginUpload(j, r) \/ OpenCopy(j, r) \/ ReadLate(j, r)
        PROVE  jobs' \in Jobs /\ HasRow'
    <3>1. PICK step \in Step : Starts(j, step, r) /\ rows[r] # Nil
      BY <2>4 DEF BeginUpload, OpenCopy, ReadLate, In, Step
    <3> QED
      BY <1>0, <3>1, JobsStay
  <2>5. ASSUME NEW j \in Job, Goes(j) \/ Abandon(j)
        PROVE  Ends(j) \/ \E step \in Step : GoesTo(j, step) /\ jobs[j] # Nil
    BY <2>5 DEF Goes, MarkUploading, WriteChunk, ReplaceFile, CompleteUpload,
                Deliver, RemoveDelivered, ExpireLate, Abandon, At, Step
  <2> QED
    BY <2>1, <2>2, <2>3, <2>4, <2>5
    DEF Next, vars, Create, Decide, ExpireSpools, RemoveExpired, AbandonSweep,
        Later, AgePart, Age
<1>2. spool' \in [Recording -> File] /\ parts' \in [Request -> File]
  <2>1. ASSUME NEW j \in Job, Goes(j)
        PROVE  spool' \in [Recording -> File] /\ parts' \in [Request -> File]
    <3>1. CASE ReplaceFile(j)
      BY <3>1, JobsRequest DEF ReplaceFile, At, IInv, TypeOK, File
    <3>2. CASE ~ReplaceFile(j)
      BY <2>1, <3>2 DEF Goes, MarkUploading, WriteChunk, CompleteUpload, Deliver,
                        RemoveDelivered, ExpireLate, IInv, TypeOK, File
    <3> QED
      BY <3>1, <3>2
  <2>2. CASE RemoveExpired
    BY <2>2 DEF RemoveExpired, IInv, TypeOK, File
  <2>3. ASSUME NEW r \in Request, AgePart(r)
        PROVE  spool' \in [Recording -> File] /\ parts' \in [Request -> File]
    BY <2>3 DEF AgePart, IInv, TypeOK, File
  <2>4. ASSUME NEW v \in Recording, Age(v)
        PROVE  spool' \in [Recording -> File] /\ parts' \in [Request -> File]
    BY <2>4 DEF Age, IInv, TypeOK, File
  <2>5. CASE UNCHANGED <<spool, parts>>
    BY <2>5 DEF IInv, TypeOK
  <2> QED
    BY <2>1, <2>2, <2>3, <2>4, <2>5
    DEF Next, vars, Create, Decide, BeginUpload, OpenCopy, ReadLate, Abandon,
        ExpireSpools, AbandonSweep, Later
<1>3. sweep' \in (SUBSET Recording) \cup {Nil}
  <2>1. CASE ExpireSpools
    <3>1. \A r \in Abandoned : rows[r] \in Row
      BY DEF Abandoned, In, IInv, TypeOK
    <3> QED
      BY <2>1, <3>1 DEF ExpireSpools, Row
  <2>2. CASE ~ExpireSpools
    BY <2>2 DEF Next, Goes, vars, Create, Decide, BeginUpload, MarkUploading,
        WriteChunk, ReplaceFile, CompleteUpload, OpenCopy, Deliver,
        RemoveDelivered, ReadLate, ExpireLate, RemoveExpired, Later, Age,
        AgePart, Abandon, AbandonSweep, IInv, TypeOK
  <2> QED
    BY <2>1, <2>2
<1> QED
  BY <1>0, <1>1, <1>2, <1>3 DEF IInv, TypeOK, Keeps, Rows, Jobs

\* Every row, file and job is well formed, and every HTTP request under way is
\* about a download request that exists.
THEOREM RecordingTypeCorrect == Spec => [](TypeOK /\ HasRow)
<1>1. IInv => TypeOK /\ HasRow
  BY DEF IInv
<1> QED
  BY <1>1, InitInv, StepInv, PTL DEF Spec

\* An ended request stays ended, and only one that was ready is ever delivered:
\* no overlap of a tablet's upload, a decision, a download and a clean-up, and no
\* deadline that passes while one of them waits, reopens it.
THEOREM RecordingEndedStaysEnded == Spec => EndedStaysEnded
<1>1. IInv /\ [Next]_vars =>
        [\A r \in In(Ended) :
            /\ rows'[r].state \in Ended
            /\ rows'[r].state = "downloaded" => rows[r].state = "downloaded"]_vars
  <2> SUFFICES ASSUME IInv, [Next]_vars, NEW r \in In(Ended)
      PROVE  /\ rows'[r].state \in Ended
             /\ rows'[r].state = "downloaded" => rows[r].state = "downloaded"
    OBVIOUS
  <2>1. MayBecome(rows[r], rows'[r]) /\ rows[r].state \in Ended
    BY RowsStep DEF Keeps, In
  <2> QED
    BY <2>1 DEF MayBecome, Ended
<1> QED
  BY <1>1, InitInv, StepInv, PTL DEF Spec, EndedStaysEnded

\* No other step makes a row.
LEMMA CreateOnly ==
    ASSUME IInv, [Next]_vars,
           ~ \E r \in Request, u \in User, v \in Recording, remote \in BOOLEAN :
                Create(r, u, v, remote),
           NEW x \in Request, rows[x] = Nil
    PROVE  rows'[x] = Nil
<1>1. rows \in Rows
  BY DEF IInv, TypeOK, Rows
<1>2. ASSUME NEW r \in Request, NEW state, NEW late, rows[r] # Nil,
             Becomes(r, state, late)
      PROVE  rows'[x] = Nil
  BY <1>1, <1>2 DEF Becomes, Rows
<1>3. ASSUME NEW r \in Request, NEW approved \in BOOLEAN, Decide(r, approved)
      PROVE  rows'[x] = Nil
  BY <1>2, <1>3 DEF Decide
<1>4. ASSUME NEW j \in Job, NEW r \in Request, BeginUpload(j, r)
      PROVE  rows'[x] = Nil
  BY <1>2, <1>4 DEF BeginUpload, In
<1>5. ASSUME NEW j \in Job, Goes(j)
      PROVE  rows'[x] = Nil
  <2>1. CASE UNCHANGED rows
    BY <2>1
  <2>2. CASE ~UNCHANGED rows
    <3>1. jobs[j] # Nil
      BY <1>5, <2>2 DEF Goes, MarkUploading, CompleteUpload, Deliver, ExpireLate,
         WriteChunk, ReplaceFile, RemoveDelivered, At
    <3>2. jobs[j].request \in Request /\ jobs[j].request # x
      BY <3>1, JobsRequest
    <3>3. MarkUploading(j) \/ CompleteUpload(j) \/ Deliver(j) \/ ExpireLate(j)
      BY <1>5, <2>2 DEF Goes, WriteChunk, ReplaceFile, RemoveDelivered
    <3> QED
      BY <1>1, <3>2, <3>3 DEF MarkUploading, CompleteUpload, Deliver, ExpireLate,
         Becomes, Rows
  <2> QED
    BY <2>1, <2>2
<1>6. CASE ExpireSpools
  BY <1>6 DEF ExpireSpools, Abandoned, In
<1>7. ASSUME NEW r \in Request, Later(r)
      PROVE  rows'[x] = Nil
  BY <1>1, <1>7 DEF Later, Rows
<1> QED
  BY <1>3, <1>4, <1>5, <1>6, <1>7
  DEF Next, vars, OpenCopy, ReadLate, RemoveExpired, Age, AgePart, Abandon,
      AbandonSweep

LEMMA QuestionStep == IInv /\ OneQuestion /\ [Next]_vars => OneQuestion'
<1> SUFFICES ASSUME IInv, OneQuestion, [Next]_vars,
                    NEW q \in Request, NEW r \in Request, q # r,
                    rows'[q] # Nil, rows'[q].state = "awaiting_approval",
                    rows'[r] # Nil, rows'[r].state = "awaiting_approval",
                    rows'[q].recording = rows'[r].recording,
                    rows'[q].requester = rows'[r].requester,
                    ~rows'[q].late, ~rows'[r].late
             PROVE  FALSE
  BY DEF OneQuestion, In
<1>0. Keeps
  BY RowsStep
<1>1. ASSUME NEW x \in {q, r}, rows[x] # Nil
      PROVE  /\ rows[x].state = "awaiting_approval" /\ ~rows[x].late
             /\ rows[x].recording = rows'[x].recording
             /\ rows[x].requester = rows'[x].requester
  BY <1>0, <1>1 DEF Keeps, MayBecome
<1>2. CASE rows[q] # Nil /\ rows[r] # Nil
  BY <1>1, <1>2 DEF OneQuestion, In
<1>3. ASSUME NEW x \in {q, r}, NEW y \in {q, r}, x # y, rows[x] = Nil
      PROVE  FALSE
  <2>1. PICK z \in Request, u \in User, v \in Recording, remote \in BOOLEAN :
            Create(z, u, v, remote)
    BY <1>3, CreateOnly
  <2> DEFINE new == [recording |-> v, requester |-> u,
                     state |-> IF remote THEN "approved" ELSE "awaiting_approval",
                     late |-> FALSE, stored |-> FALSE]
  <2>2. rows' = [rows EXCEPT ![z] = new] /\ OpenOf(u, v) = {}
    BY <2>1 DEF Create
  <2>3. new.recording = v /\ new.requester = u
    OBVIOUS
  <2> HIDE DEF new
  <2>4. z = x /\ rows'[x] = new /\ rows'[y] = rows[y]
    BY <1>3, <2>2 DEF IInv, TypeOK
  <2>5. rows[y] # Nil
    BY <2>4
  <2>6. /\ rows[y].state = "awaiting_approval" /\ ~rows[y].late
        /\ rows[y].recording = v /\ rows[y].requester = u
    BY <2>3, <2>4
  <2>7. y \in OpenOf(u, v)
    BY <2>5, <2>6 DEF OpenOf, Of, In, Unsettled
  <2> QED
    BY <2>2, <2>7
<1> QED
  BY <1>2, <1>3

\* However requests, decisions and transfers overlap, a requester never has two
\* questions about one recording open with the tablet's operator.
THEOREM RecordingOneQuestion == Spec => []OneQuestion
<1>1. Init => OneQuestion
  BY DEF Init, OneQuestion, In
<1> QED
  BY <1>1, InitInv, StepInv, QuestionStep, PTL DEF Spec
=============================================================================
