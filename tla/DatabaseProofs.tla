--------------------------- MODULE DatabaseProofs ---------------------------
(***************************************************************************)
(* What the effects of Database leave alone, and what is there after them. *)
(***************************************************************************)
EXTENDS Database, TLAPS

\* The effect e touches no table but those of S.
Only(e, S) == \A T \in Tables \ S : e.drop[T] = {} /\ e.put[T] = {}

LEMMA NoEffectAt ==
  ASSUME NEW T \in Tables
  PROVE  NoEffect.drop[T] = {} /\ NoEffect.put[T] = {} /\ NoEffect.made[T] = {}
BY DEF NoEffect

LEMMA DeletedAt ==
  ASSUME NEW T \in Tables, NEW U \in Tables, NEW R
  PROVE  /\ Deleted(U, R).put[T] = {}
         /\ Deleted(U, R).drop[T] = IF T = U THEN Ids(R) ELSE {}
BY DEF Deleted, NoEffect

LEMMA InsertedAt ==
  ASSUME NEW T \in Tables, NEW U \in Tables, NEW R
  PROVE  /\ Inserted(U, R).drop[T] = {}
         /\ Inserted(U, R).put[T] = IF T = U THEN R ELSE {}
BY DEF Inserted, NoEffect

LEMMA SavedAt ==
  ASSUME NEW T \in Tables, NEW U \in Tables, NEW R
  PROVE  /\ Saved(U, R).drop[T] = {}
         /\ Saved(U, R).put[T] = IF T = U THEN R ELSE {}
BY DEF Saved, NoEffect

LEMMA ThenAt ==
  ASSUME NEW e, NEW f, NEW T \in Tables
  PROVE  /\ Then(e, f).drop[T] = e.drop[T] \cup f.drop[T]
         /\ Then(e, f).put[T] = Without(e.put[T], f.drop[T] \cup Ids(f.put[T])) \cup f.put[T]
         /\ Then(e, f).put[T] \subseteq e.put[T] \cup f.put[T]
BY DEF Then, Without

\* What the basic effects put into a table.
LEMMA PutBasic ==
  ASSUME NEW T \in Tables, NEW U \in Tables, NEW R
  PROVE  /\ NoEffect.put[T] = {} /\ Deleted(U, R).put[T] = {}
         /\ Inserted(T, R).put[T] = R /\ Saved(T, R).put[T] = R
         /\ T # U => Inserted(U, R).put[T] = {} /\ Saved(U, R).put[T] = {}
BY DEF Deleted, Inserted, Saved, NoEffect

LEMMA PutThen ==
  ASSUME NEW T \in Tables, NEW e, NEW f, NEW R, e.put[T] \subseteq R, f.put[T] \subseteq R
  PROVE  Then(e, f).put[T] \subseteq R
BY DEF Then, Without

\* What they delete from one.
LEMMA DropBasic ==
  ASSUME NEW T \in Tables, NEW U \in Tables, NEW R
  PROVE  /\ NoEffect.drop[T] = {} /\ Inserted(U, R).drop[T] = {} /\ Saved(U, R).drop[T] = {}
         /\ T # U => Deleted(U, R).drop[T] = {}
         /\ Deleted(T, R).drop[T] = Ids(R)
BY DEF Deleted, Inserted, Saved, NoEffect

LEMMA ThenNothing ==
  ASSUME NEW T \in Tables, NEW e, NEW f
  PROVE  /\ e.put[T] = {} /\ f.put[T] = {} => Then(e, f).put[T] = {}
         /\ e.drop[T] = {} /\ f.drop[T] = {} => Then(e, f).drop[T] = {}
BY DEF Then, Without

LEMMA AfterAt ==
  ASSUME NEW d, NEW e, NEW T \in Tables
  PROVE  /\ After(d, e)[T] = Without(d[T], e.drop[T] \cup Ids(e.put[T])) \cup e.put[T]
         /\ After(d, e)[T] \subseteq d[T] \cup e.put[T]
BY DEF After, Without

\* A table that an effect does not touch has the rows it had.
LEMMA AfterUntouched ==
  ASSUME NEW d, NEW e, NEW T \in Tables, e.drop[T] = {}, e.put[T] = {}
  PROVE  \A r : r \in After(d, e)[T] <=> r \in d[T]
<1>1. Ids(e.put[T]) = {}
  BY DEF Ids
<1>2. After(d, e)[T] = Without(d[T], {} \cup {}) \cup {}
  BY <1>1 DEF After
<1>3. ASSUME NEW r PROVE r \in Without(d[T], {} \cup {}) \cup {} <=> r \in d[T]
  BY DEF Without
<1> QED BY <1>2, <1>3

LEMMA OnlyBasic ==
  ASSUME NEW U \in Tables, NEW R, NEW S, U \in S
  PROVE  Only(NoEffect, S) /\ Only(Deleted(U, R), S) /\ Only(Inserted(U, R), S) /\ Only(Saved(U, R), S)
<1>1. Only(NoEffect, S)
  BY NoEffectAt DEF Only
<1>2. Only(Deleted(U, R), S)
  BY DeletedAt DEF Only
<1>3. Only(Inserted(U, R), S)
  BY InsertedAt DEF Only
<1>4. Only(Saved(U, R), S)
  BY SavedAt DEF Only
<1> QED BY <1>1, <1>2, <1>3, <1>4

LEMMA OnlyThen ==
  ASSUME NEW e, NEW f, NEW S, Only(e, S), Only(f, S)
  PROVE  Only(Then(e, f), S)
BY ThenAt DEF Only, Without, Ids

LEMMA OnlyMore ==
  ASSUME NEW e, NEW S, NEW S2, Only(e, S), S \subseteq S2
  PROVE  Only(e, S2)
BY DEF Only

-----------------------------------------------------------------------------
\* A commit, whole or in part: rows are old, or written by the effect, and what
\* it deletes is not there unless it writes it.
LEMMA WriteAt ==
  ASSUME NEW e, Write(e), NEW T \in Tables
  PROVE  /\ db'[T] \subseteq db[T] \cup e.put[T]
         /\ \A r \in db[T] : r.id \notin e.drop[T] \cup Ids(e.put[T]) => r \in db'[T]
         /\ \A r \in e.put[T] : r.id \notin Gone(e, T) => r \in db'[T]
<1>1. PICK lost \in SUBSET UNION {{U} \X Gone(e, U) : U \in Tables} :
        db' = After(db, [e EXCEPT !.put =
                [U \in Tables |-> Without(@[U], {id \in Gone(e, U) : <<U, id>> \in lost})]])
  BY DEF Write
<1> DEFINE f == [e EXCEPT !.put = [U \in Tables |-> Without(@[U], {id \in Gone(e, U) : <<U, id>> \in lost})]]
<1>2. f.put[T] = Without(e.put[T], {id \in Gone(e, T) : <<T, id>> \in lost})
  OBVIOUS
<1>3. f.drop[T] = e.drop[T]
  OBVIOUS
<1>4. db'[T] = Without(db[T], f.drop[T] \cup Ids(f.put[T])) \cup f.put[T]
  BY <1>1, AfterAt
<1> QED BY <1>2, <1>3, <1>4 DEF Without, Ids

\* What is there after it was written by the effect, or not deleted by it.
LEMMA WriteDrops ==
  ASSUME NEW e, Write(e), NEW T \in Tables, NEW r \in db'[T]
  PROVE  r \in e.put[T] \/ (r \in db[T] /\ r.id \notin e.drop[T])
<1>1. PICK lost \in SUBSET UNION {{U} \X Gone(e, U) : U \in Tables} :
        db' = After(db, [e EXCEPT !.put =
                [U \in Tables |-> Without(@[U], {id \in Gone(e, U) : <<U, id>> \in lost})]])
  BY DEF Write
<1> DEFINE f == [e EXCEPT !.put = [U \in Tables |-> Without(@[U], {id \in Gone(e, U) : <<U, id>> \in lost})]]
<1>2. f.put[T] \subseteq e.put[T] /\ f.drop[T] = e.drop[T]
  BY DEF Without
<1>3. db' = After(db, f)
  BY <1>1
<1> HIDE DEF f
<1>4. db'[T] = Without(db[T], f.drop[T] \cup Ids(f.put[T])) \cup f.put[T]
  BY <1>3 DEF After
<1> QED BY <1>2, <1>4 DEF Without

\* What it writes takes the place of what was there.
LEMMA WriteReplaces ==
  ASSUME NEW e, Write(e), NEW T \in Tables, NEW r \in db'[T], r \notin e.put[T]
  PROVE  r.id \notin Ids(e.put[T])
<1>1. PICK lost \in SUBSET UNION {{U} \X Gone(e, U) : U \in Tables} :
        db' = After(db, [e EXCEPT !.put =
                [U \in Tables |-> Without(@[U], {id \in Gone(e, U) : <<U, id>> \in lost})]])
  BY DEF Write
<1> DEFINE f == [e EXCEPT !.put = [U \in Tables |-> Without(@[U], {id \in Gone(e, U) : <<U, id>> \in lost})]]
           L == {id \in Gone(e, T) : <<T, id>> \in lost}
<1>2. f.put[T] = Without(e.put[T], L)
  OBVIOUS
<1>3. db' = After(db, f)
  BY <1>1
<1>4. L \cap Ids(db[T]) = {}
  BY DEF Gone
<1> HIDE DEF f, L
<1>5. db'[T] = Without(db[T], f.drop[T] \cup Ids(f.put[T])) \cup f.put[T]
  BY <1>3 DEF After
<1>6. r \in db[T] /\ r.id \notin Ids(f.put[T])
  BY <1>2, <1>5 DEF Without
<1>7. r.id \notin L
  BY <1>4, <1>6 DEF Ids
<1> QED BY <1>2, <1>6, <1>7 DEF Without, Ids

\* Rows of a table have ids of their own.
Unique(R) == \A r, q \in R : r.id = q.id => r = q

LEMMA WriteUnique ==
  ASSUME NEW e, Write(e), NEW T \in Tables, Unique(db[T]), Unique(e.put[T])
  PROVE  Unique(db'[T])
<1>1. PICK lost \in SUBSET UNION {{U} \X Gone(e, U) : U \in Tables} :
        db' = After(db, [e EXCEPT !.put =
                [U \in Tables |-> Without(@[U], {id \in Gone(e, U) : <<U, id>> \in lost})]])
  BY DEF Write
<1> DEFINE f == [e EXCEPT !.put = [U \in Tables |-> Without(@[U], {id \in Gone(e, U) : <<U, id>> \in lost})]]
<1>2. f.put[T] \subseteq e.put[T]
  BY DEF Without
<1>3. db' = After(db, f)
  BY <1>1
<1> HIDE DEF f
<1>4. db'[T] = Without(db[T], f.drop[T] \cup Ids(f.put[T])) \cup f.put[T]
  BY <1>3 DEF After
<1> QED BY <1>2, <1>4 DEF Without, Ids, Unique

\* A row that an effect does not delete leaves its id, at least.
LEMMA WriteKeepsId ==
  ASSUME NEW e, Write(e), NEW T \in Tables, NEW r \in db[T], r.id \notin e.drop[T]
  PROVE  \E q \in db'[T] : q.id = r.id /\ (q = r \/ q \in e.put[T])
<1>1. CASE r.id \notin Ids(e.put[T])
  BY <1>1, WriteAt
<1>2. CASE r.id \in Ids(e.put[T])
  <2>1. PICK q \in e.put[T] : q.id = r.id
    BY <1>2 DEF Ids
  <2>2. q.id \notin Gone(e, T)
    BY <2>1 DEF Gone, Ids
  <2> QED BY <2>1, <2>2, WriteAt
<1> QED BY <1>1, <1>2
=============================================================================
