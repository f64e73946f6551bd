-------------------------------- MODULE Qramm --------------------------------
(***************************************************************************)
(* The QRAMM assessment behind /api/qramm: sessions, one answer row per    *)
(* question, suggestions that the evidence bridge derives from the scans,  *)
(* and a score saved with the number of answers it was computed from.      *)
(* Every handler reads first and commits later, in a worker thread of its  *)
(* own.  Ids are SQLite rowids: the highest one in use plus one, so that a *)
(* deleted session's id, and those of its answers, are given out again.    *)
(* A handler that answers 404, 422 or 500 changes nothing and is no step.  *)
(***************************************************************************)
EXTENDS Integers, Sequences, FiniteSets, FiniteSetsExt

CONSTANTS
    Questions,    \* the catalogue: records of question number n, dimension dim, practice pa
    Values,       \* answer values a draft may carry, of 1..4
    Payloads,     \* bodies of a save: sequences of [q, val]
    Estates,      \* what the scans up to now found: [hosts, protocols, algs, vulnerable]
    Multipliers,  \* profile multipliers a client may send, in hundredths
    MaxSessions,  \* bound on the sessions ever created
    MaxEdits      \* bound on the drafts and saves ever sent

Nothing == 0     \* NULL: no answer, no suggestion, no score
None == -1       \* a suggestion that was never written
Dimensions == {"CVI", "SGRM", "DPE", "ITR"}
QuestionOf(n) == CHOOSE q \in Questions : q.n = n
MULTIPLIER_MIN == 80
MULTIPLIER_MAX == 150

VARIABLES
    sessions,  \* qramm_sessions: [id, born, score]; born is created_at
    rows,      \* qramm_answers: [id, sess, q, val, sugg, confirmed]
    req,       \* what each worker thread read and has not committed yet
    born,      \* sessions created so far
    edits      \* drafts and saves so far

qrammVars == <<sessions, rows, req, born, edits>>

NoScan == [hosts |-> 0, protocols |-> 0, algs |-> 0, vulnerable |-> 0]
Threads == 1..2
Unscored == [qs |-> {}, counts |-> [d \in Dimensions |-> 0], overall |-> 0, maturity |-> "none", of |-> 0]
Waiting == [op |-> "idle", sess |-> 0, items |-> <<>>, score |-> Unscored, estate |-> NoScan]
BlankAnswer(id, s, n) == [id |-> id, sess |-> s, q |-> n, val |-> Nothing, sugg |-> None, confirmed |-> FALSE]

NextId(table) == IF table = {} THEN 1 ELSE Max({x.id : x \in table}) + 1
Exists(s) == \E x \in sessions : x.id = s
SessionOf(s) == CHOOSE x \in sessions : x.id = s
RowsFor(s, n) == {r \in rows : r.sess = s /\ r.q = n}

-----------------------------------------------------------------------------
(* The score *)

AnsweredRows(s) == {r \in rows : r.sess = s /\ r.val # Nothing}
Answered(s) == {r.q : r \in AnsweredRows(s)}
answered_by_dimension(ns) == [d \in Dimensions |-> Cardinality({n \in ns : QuestionOf(n).dim = d})]
is_dimension_assessed(count) == count >= 1

\* Scores are in ten-thousandths, as the code rounds them.
Lesser(a, b) == IF a < b THEN a ELSE b
compute_practice_score(rs) ==
    IF rs = {} THEN 0 ELSE (10000 * MapThenSumSet(LAMBDA r : r.val, rs)) \div Cardinality(rs)
compute_dimension_score(s, d) ==
    Min({compute_practice_score({r \in AnsweredRows(s) : QuestionOf(r.q).pa = pa}) :
           pa \in {q.pa : q \in {x \in Questions : x.dim = d}}} \cup {40000})
_maturity_label(overall) ==
    CASE overall >= 39500 -> "Optimizing"
      [] overall \in 35000..39499 -> "Advanced"
      [] overall \in 25000..34999 -> "Established"
      [] overall \in 15000..24999 -> "Developing"
      [] overall \in 10000..14999 -> "Basic"
      [] OTHER -> "Below Basic"
compute_overall_score(s, multiplier) ==
    LET assessed == {d \in Dimensions : is_dimension_assessed(answered_by_dimension(Answered(s))[d])}
        weighted(d) == Lesser(40000, (compute_dimension_score(s, d) * multiplier) \div 100) IN
    MapThenSumSet(weighted, assessed) \div Cardinality(assessed)
ScoreOf(s, multiplier) ==
    LET overall == compute_overall_score(s, multiplier) IN
    [qs |-> Answered(s), counts |-> answered_by_dimension(Answered(s)), overall |-> overall,
     maturity |-> _maturity_label(overall), of |-> SessionOf(s).born]

\* What the readers of a session make of a saved score.  A dimension without
\* answers is left out of the comparison.
is_score_stale_AssessedThen(s, score) ==
    \E d \in Dimensions : is_dimension_assessed(score.counts[d])
                          /\ score.counts[d] # answered_by_dimension(Answered(s))[d]
is_score_stale(s, score) ==
    \E d \in Dimensions : is_dimension_assessed(answered_by_dimension(Answered(s))[d])
                          /\ score.counts[d] # answered_by_dimension(Answered(s))[d]
overall_state(x) ==
    IF x.score = Unscored THEN "unscored" ELSE IF is_score_stale(x.id, x.score) THEN "stale" ELSE "current"
row_coverage_status(x, d) ==
    LET live == answered_by_dimension(Answered(x.id))[d] IN
    IF ~ is_dimension_assessed(live) THEN "pending"
    ELSE IF x.score # Unscored /\ x.score.counts[d] # live THEN "stale"
    ELSE IF d = "CVI" THEN "covered" ELSE "self-assessed"
\* Whether build_compliance_rows shows a relevance for a dimension's practices.
HasRelevance(x, d) == x.score # Unscored /\ row_coverage_status(x, d) \in {"covered", "self-assessed"}

-----------------------------------------------------------------------------
(* The evidence bridge *)

\* In twelfths, for 1, 10, 100 or 1000 endpoints; int() truncates the product.
_discovery_factor(hosts) ==
    CASE hosts < 10 -> 3 [] hosts \in 10..99 -> 4 [] hosts \in 100..999 -> 8 [] OTHER -> 12
Suggestion(estate, pa) ==
    CASE pa = "1.1" -> ((IF estate.protocols <= 1 THEN 2 ELSE IF estate.protocols <= 3 THEN 3 ELSE 4)
                          * _discovery_factor(estate.hosts)) \div 12
      [] pa = "1.2" -> IF estate.algs = 0 THEN None
                       ELSE IF estate.vulnerable <= 25 THEN 4 ELSE IF estate.vulnerable <= 50 THEN 3
                       ELSE IF estate.vulnerable <= 75 THEN 2 ELSE 1
      [] OTHER -> IF estate.algs = 0 THEN 1 ELSE IF estate.algs <= 2 THEN 2 ELSE IF estate.algs <= 5 THEN 3 ELSE 4
Suggested_Recreated(r, estate) ==
    [BlankAnswer(r.id, r.sess, r.q) EXCEPT !.sugg = Suggestion(estate, QuestionOf(r.q).pa)]
Suggested(r, estate) == [r EXCEPT !.sugg = Suggestion(estate, QuestionOf(r.q).pa)]

\* The bulk update of a session's CVI rows; the commit may fail, and create_session
\* answers 201 all the same.
populate_cvi_suggestions(t) ==
    /\ req[t].op = "populate"
    /\ \/ rows' = {IF r.sess = req[t].sess /\ QuestionOf(r.q).dim = "CVI" /\ req[t].estate.hosts > 0
                   THEN Suggested(r, req[t].estate) ELSE r : r \in rows}
       \/ UNCHANGED rows
    /\ req' = [req EXCEPT ![t] = Waiting]
    /\ UNCHANGED <<sessions, born, edits>>

-----------------------------------------------------------------------------
(* The handlers *)

\* A session and its blank CVI rows in one commit; the bridge runs after it and
\* sees the scans up to now.
create_session(t) ==
    LET s == NextId(sessions)
        cvi == {q.n : q \in {x \in Questions : x.dim = "CVI"}}
        rank(n) == Cardinality({m \in cvi : m < n}) IN
    /\ born < MaxSessions /\ born' = born + 1
    /\ req[t].op = "idle"
    /\ sessions' = sessions \cup {[id |-> s, born |-> born', score |-> Unscored]}
    /\ rows' = rows \cup {BlankAnswer(NextId(rows) + rank(n), s, n) : n \in cvi}
    /\ \E e \in Estates : req' = [req EXCEPT ![t] = [Waiting EXCEPT !.op = "populate", !.sess = s, !.estate = e]]
    /\ UNCHANGED edits

\* Reading for a save or a draft: the session must exist and a question may not
\* have two rows (one_or_none raises).
Unsaved == BlankAnswer(0, 0, 0)
Load(t, op, s, payload) ==
    /\ edits < MaxEdits /\ edits' = edits + 1
    /\ req[t].op = "idle" /\ Exists(s)
    /\ \A i \in DOMAIN payload : Cardinality(RowsFor(s, payload[i].q)) <= 1
    /\ req' = [req EXCEPT ![t] = [Waiting EXCEPT !.op = op, !.sess = s, !.items =
         [i \in DOMAIN payload |->
            [q |-> payload[i].q, val |-> payload[i].val,
             row |-> IF RowsFor(s, payload[i].q) = {} THEN Unsaved ELSE CHOOSE r \in RowsFor(s, payload[i].q) : TRUE]]]]
    /\ UNCHANGED <<sessions, rows, born>>

\* Writing: a row that was not there is inserted, without a flush between two
\* items; one that was there is updated by its id, and only where it changes.
\* An UPDATE that meets no row fails the whole commit.
Inserts(t) == {i \in DOMAIN req[t].items : req[t].items[i].row = Unsaved}
Updates(t) == DOMAIN req[t].items \ Inserts(t)
Merged(t, r) ==
    LET mine == {i \in Updates(t) : req[t].items[i].row.id = r.id /\ req[t].items[i].val # Nothing} IN
    IF mine = {} THEN r
    ELSE LET item == req[t].items[Max(mine)] IN
         [r EXCEPT !.val = IF item.val = item.row.val THEN @ ELSE item.val,
                   !.confirmed = @ \/ item.row.sugg # None]
CanCommit(t) ==
    /\ req[t].op = "save" => Exists(req[t].sess)
    /\ \A i \in Updates(t) : \E r \in rows : r.id = req[t].items[i].row.id
Commit(t) ==
    /\ req[t].op \in {"save", "draft"}
    /\ rows' = IF ~ CanCommit(t) THEN rows
               ELSE {Merged(t, r) : r \in rows}
                    \cup {[BlankAnswer(NextId(rows) + Cardinality({j \in Inserts(t) : j < i}),
                                       req[t].sess, req[t].items[i].q) EXCEPT !.val = req[t].items[i].val] :
                            i \in Inserts(t)}
    /\ req' = [req EXCEPT ![t] = Waiting]
    /\ UNCHANGED <<sessions, born, edits>>

save_answers(t) == \E s \in {x.id : x \in sessions}, p \in Payloads : Load(t, "save", s, p)
\* A draft may carry a note only.
draft_answer(t) ==
    \E s \in {x.id : x \in sessions}, q \in Questions, v \in {Nothing} \cup Values :
        Load(t, "draft", s, <<[q |-> q.n, val |-> v]>>)

\* The multiplier is the client's, 1.0 unless it sends one.
score_session(t) ==
    /\ req[t].op = "idle"
    /\ \E s \in {x.id : x \in sessions}, m \in {k \in Multipliers \cup {100} : k \in MULTIPLIER_MIN..MULTIPLIER_MAX} :
         /\ AnsweredRows(s) # {}
         /\ req' = [req EXCEPT ![t] = [Waiting EXCEPT !.op = "score", !.sess = s, !.score = ScoreOf(s, m)]]
    /\ UNCHANGED <<sessions, rows, born, edits>>
SaveScore(t) ==
    /\ req[t].op = "score"
    /\ sessions' = {IF x.id = req[t].sess THEN [x EXCEPT !.score = req[t].score] ELSE x : x \in sessions}
    /\ req' = [req EXCEPT ![t] = Waiting]
    /\ UNCHANGED <<rows, born, edits>>

delete_session ==
    /\ \E x \in sessions :
         /\ sessions' = sessions \ {x}
         /\ rows' = {r \in rows : r.sess # x.id}
    /\ UNCHANGED <<req, born, edits>>

\* The server stops: what was not committed is gone.
ServerDies ==
    /\ \E t \in Threads : req[t].op # "idle"
    /\ req' = [t \in Threads |-> Waiting]
    /\ UNCHANGED <<sessions, rows, born, edits>>

QrammInit ==
    /\ sessions = {} /\ rows = {} /\ req = [t \in Threads |-> Waiting] /\ born = 0 /\ edits = 0

QrammNext ==
    \/ \E t \in Threads :
         \/ create_session(t) \/ populate_cvi_suggestions(t) \/ save_answers(t) \/ draft_answer(t)
         \/ Commit(t) \/ score_session(t) \/ SaveScore(t)
    \/ delete_session \/ ServerDies

-----------------------------------------------------------------------------
(* Properties *)

\* A score shown as current, and a relevance shown for a dimension, was computed
\* from exactly the questions that are answered now: none that was answered
\* while the score was being computed or after it goes unnoticed
\* (is_score_stale, row_coverage_status).  It is about which questions are
\* answered, not with what: the code means not to notice another value (D-21).
\* A score that a reused id received is excepted.
ScoreCoversAnswers ==
    \A x \in sessions : x.score # Unscored /\ x.score.of = x.born =>
        /\ overall_state(x) = "current" => Answered(x.id) = x.score.qs
        /\ \A d \in Dimensions : HasRelevance(x, d) =>
              {n \in Answered(x.id) : QuestionOf(n).dim = d} = {n \in x.score.qs : QuestionOf(n).dim = d}

\* While a session lives no step takes an answer back: not the bridge that runs
\* after the session can be answered, not a late commit of another request, not
\* the deletion of another session (populate_cvi_suggestions, draft_answer).
AnsweredStaysAnswered ==
    [][sessions' # sessions \/ rows' # rows =>
         \A x \in sessions : (\E y \in sessions' : y.born = x.born) => Answered(x.id) \subseteq Answered(x.id)']_qrammVars
=============================================================================
