------------------------------ MODULE Database ------------------------------
(***************************************************************************)
(* The database that the web workers and the cron jobs share: committed    *)
(* tables, and the transactions that are open on them.  Every HTTP request *)
(* is one transaction (django.middleware.transaction), READ COMMITTED: it  *)
(* reads what is committed and what it has written itself, and its writes  *)
(* show when it commits.  A step of a request reads and writes at one      *)
(* moment; a request whose write waits for another's lock on the row is    *)
(* one whose commit comes later, with what it had read before.             *)
(*                                                                         *)
(* Rows are records with an id; the id of a new row is made of the number  *)
(* of the transaction, which a rollback does not give back.                *)
(***************************************************************************)
EXTENDS Integers, FiniteSets

CONSTANTS
  Tables,    \* names of the tables
  MaxOpen    \* bound: transactions open at a time

VARIABLES
  db,      \* the committed rows, by table
  open,    \* the open transactions, by number
  serial,  \* the last number given
  history  \* (history) what two open transactions were both about, and the
           \* notes of those that committed

database == <<db, open, serial, history>>

-----------------------------------------------------------------------------
\* What a transaction has written, by table: the ids of the rows it deleted, the
\* rows it wrote, and the ids of those it made.
Ids(R)         == {r.id : r \in R}
NoEffect       == [drop |-> [T \in Tables |-> {}], put |-> [T \in Tables |-> {}],
                   made |-> [T \in Tables |-> {}]]
Deleted(T, R)  == [NoEffect EXCEPT !.drop[T] = Ids(R)]
Inserted(T, R) == [NoEffect EXCEPT !.put[T] = R, !.made[T] = Ids(R)]
\* Model.save() on a copy read before: every column of it is written.
Saved(T, R)    == [NoEffect EXCEPT !.put[T] = R]

Without(R, ids) == {r \in R : r.id \notin ids}

\* The effect e, and then f.
Then(e, f) ==
  [drop |-> [T \in Tables |-> e.drop[T] \cup f.drop[T]],
   put  |-> [T \in Tables |-> Without(e.put[T], f.drop[T] \cup Ids(f.put[T])) \cup f.put[T]],
   made |-> [T \in Tables |-> e.made[T] \cup f.made[T]]]

\* The tables d as they are after the effect e.
After(d, e) ==
  [T \in Tables |-> Without(d[T], e.drop[T] \cup Ids(e.put[T])) \cup e.put[T]]

Seen(n) == After(db, open[n].effect)

Select(d, T, id) == {r \in d[T] : r.id = id}

\* A request: its kind, what it carries, how far it is, what it has written,
\* what it reads and writes that others do, and what to note if it commits.
Request(kind, on, place, effect, reads, writes, notes) ==
  [kind |-> kind, on |-> on, place |-> place, effect |-> effect,
   reads |-> reads, writes |-> writes, notes |-> notes]

-----------------------------------------------------------------------------
\* A save of a row that another transaction has deleted meanwhile inserts it
\* again or writes nothing (the row is looked for, and then updated).
Gone(e, T) == Ids(e.put[T]) \ (e.made[T] \cup Ids(db[T]))

\* What two transactions are both about, if one of them writes it.
Meet(t, u) == (t.writes \cap (u.reads \cup u.writes)) \cup (t.reads \cap u.writes)

Begin(t) ==
  /\ Cardinality(DOMAIN open) < MaxOpen
  /\ serial' = serial + 1
  /\ open' = [n \in DOMAIN open \cup {serial'} |-> IF n = serial' THEN t ELSE open[n]]
  /\ history' = history \cup UNION {Meet(t, open[n]) : n \in DOMAIN open}
  /\ UNCHANGED db

\* The next statements of transaction n, which leave it at the place given.
Continue(n, e, place) ==
  /\ open' = [open EXCEPT ![n].effect = Then(@, e), ![n].place = place]
  /\ UNCHANGED <<db, serial, history>>

Closed(n) == [k \in DOMAIN open \ {n} |-> open[k]]

Write(e) ==
  \E lost \in SUBSET UNION {{T} \X Gone(e, T) : T \in Tables} :
    db' = After(db, [e EXCEPT !.put =
            [T \in Tables |-> Without(@[T], {id \in Gone(e, T) : <<T, id>> \in lost})]])

Commit(n) ==
  /\ Write(open[n].effect)
  /\ open' = Closed(n)
  /\ history' = history \cup open[n].notes
  /\ UNCHANGED serial

\* A commit in the middle of a request (transaction.commit_on_success on what
\* it calls), of the effect e; the effect f comes after it.
CommitPart(n, e, place, f) ==
  /\ Write(Then(open[n].effect, e))
  /\ open' = [open EXCEPT ![n].effect = f, ![n].place = place]
  /\ UNCHANGED <<serial, history>>

\* An exception, or the worker killed: nothing it wrote since its last commit
\* is there.
Rollback(n, marks) ==
  /\ open' = Closed(n)
  /\ history' = history \cup marks
  /\ UNCHANGED <<db, serial>>
=============================================================================
