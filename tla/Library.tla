------------------------------ MODULE Library ------------------------------
(***************************************************************************)
(* The library example: the deciders, predictors and cron hooks of one     *)
(* room (model/db.ts, predictors.ts, rooms.ts).  What each hold and        *)
(* checkout is lives in several keys of several slices at once, in the     *)
(* catalog, in its patron's slice and in the librarians' record, and every *)
(* handler keeps them together.  A predictor runs twice: in its sender's   *)
(* Engine, over what that Engine syncs, and in the database.               *)
(*                                                                         *)
(* A txn is a record of tables, keyed by the last parameters of their key  *)
(* templates.  Titles, names, colors and the words of notices are left     *)
(* out, and with them the mutations that only rewrite those, and so is the *)
(* mark of what is only a prediction.                                      *)
(***************************************************************************)
EXTENDS Integers, FiniteSets, Sequences, SequencesExt, TLC

CONSTANTS
  People,          \* user ids, which the database mints
  LoginNames, Clerk, \* login names, and the librarians' user id
  Isbns, Copies,   \* editions and book ids
  Catalog, Readers, \* the seed: <<isbn, restricted, book>> and <<login name, researcher>>
  HoldIds, CheckoutIds,
  Times, HoldTime, CheckoutTime, \* the days a client may stamp, HOLD_DAYS and CHECKOUT_DAYS
  MaxHolds, MaxOverdue, \* MAX_HOLDS and MAX_OVERDUE
  MaxSent          \* bounds the mutations and ticks

ASSUME LibraryAssumption ==
  /\ HoldIds \subseteq Nat /\ CheckoutIds \subseteq Nat /\ Times \subseteq Nat
  /\ HoldTime \in Nat /\ CheckoutTime \in Nat /\ MaxHolds \in Nat /\ MaxOverdue \in Nat \ {0}

VARIABLES
  db,      \* the room's tables
  minted,  \* the user ids the database has minted
  scholars, \* who was a researcher at any time
  sent,    \* mutations and ticks so far
  slips    \* what a step has done that no step may

libraryVars == <<db, minted, scholars, sent, slips>>

\* Tables.
With(table, key, value) == (key :> value) @@ table
Without(table, key) == [k \in DOMAIN table \ {key} |-> table[k]]

\* A book's status, where undefined is open.
Open == [kind |-> "open", id |-> 0]
HeldBy(hold) == [kind |-> "hold", id |-> hold]
OutOn(checkout) == [kind |-> "checkout", id |-> checkout]

NoRoom ==
  [room |-> FALSE, edition |-> {}, book |-> <<>>, editionBook |-> {}, hold |-> <<>>,
   editionHold |-> {}, checkout |-> <<>>, patron |-> <<>>, patronHold |-> <<>>,
   patronCheckout |-> <<>>, patronNotice |-> {}, adminNotice |-> {}, holdOwner |-> <<>>,
   checkoutOwner |-> <<>>, login |-> <<>>, userLogin |-> <<>>, threw |-> FALSE]

\* A handler that throws: what it wrote is discarded.
Thrown(t) == [t EXCEPT !.threw = TRUE]

-----------------------------------------------------------------------------
\* The predictors' helpers.

HoldsOf(t, patron) == {k \in DOMAIN t.patronHold : k[1] = patron}
CheckoutsOf(t, patron) == {k \in DOMAIN t.patronCheckout : k[1] = patron}

LoadOf(t, patron) ==
  [open |-> Cardinality(HoldsOf(t, patron)) + Cardinality(CheckoutsOf(t, patron)),
   overdue |-> Cardinality({k \in CheckoutsOf(t, patron) : t.patronCheckout[k].overdue})]

\* The unrestricted open copies of an edition, less the holds that claim one.
EditionHolds(t, isbn) == {h \in HoldIds : <<isbn, h>> \in t.editionHold}
Pool(t, isbn) ==
  {b \in DOMAIN t.book :
     <<isbn, b>> \in t.editionBook /\ t.book[b].status = Open /\ ~t.book[b].restricted}
FreeCopies(t, isbn) == Cardinality(Pool(t, isbn)) - Cardinality(EditionHolds(t, isbn))

ReleaseHold(t, hold) ==
  IF hold \notin DOMAIN t.hold THEN Thrown(t)
  ELSE LET target == t.hold[hold].target
           t1 == [t EXCEPT !.hold = Without(@, hold)]
       IN  CASE target.kind = "edition" -> [t1 EXCEPT !.editionHold = @ \ {<<target.of, hold>>}]
             [] target.kind = "book" /\ target.of \in DOMAIN t.book ->
                  [t1 EXCEPT !.book[target.of].status = Open]
             [] OTHER -> Thrown(t1)

CloseHold(t, hold, patron, notify) ==
  [ReleaseHold(t, hold) EXCEPT
     !.patronHold = Without(@, <<patron, hold>>),
     !.patronNotice = IF notify THEN @ \cup {<<patron, hold>>} ELSE @]

CloseOwnedHold(t, hold, notify) ==
  IF hold \notin DOMAIN t.holdOwner THEN Thrown(t)
  ELSE [CloseHold(t, hold, t.holdOwner[hold], notify) EXCEPT !.holdOwner = Without(@, hold)]

CloseAll(t, holds, notify) ==
  FoldLeft(LAMBDA u, h : CloseOwnedHold(u, h, notify), t, SetToSeq(holds))

\* A mutant of Overflow: it counts from the pool as it will be.
MutOverflow(t, isbn) ==
  LET holds == EditionHolds(t, isbn) \cap DOMAIN t.hold
      Newer(g, h) == t.hold[g].at > t.hold[h].at \/ (t.hold[g].at = t.hold[h].at /\ g < h)
  IN  CloseAll(t, {h \in holds : Cardinality({g \in holds : Newer(g, h)}) < 0 - FreeCopies(t, isbn)}, TRUE)

\* An open unrestricted copy is about to leave the pool: the edition's holds
\* that no longer fit close, newest first.
Overflow(t, isbn) ==
  LET holds == EditionHolds(t, isbn) \cap DOMAIN t.hold
      Newer(g, h) == t.hold[g].at > t.hold[h].at \/ (t.hold[g].at = t.hold[h].at /\ g < h)
  IN  CloseAll(t, {h \in holds : Cardinality({g \in holds : Newer(g, h)}) < 1 - FreeCopies(t, isbn)}, TRUE)

OpenHold(t, m) ==
  LET own == [target |-> m.target, expires |-> IF m.open THEN {} ELSE {m.at + HoldTime}]
      t1 == [t EXCEPT
               !.hold = With(@, m.id, [target |-> m.target, expires |-> own.expires, at |-> m.at]),
               !.patronHold = With(@, <<m.patron, m.id>>, own)]
  IN  IF m.target.kind = "book" THEN [t1 EXCEPT !.book[m.target.of].status = HeldBy(m.id)]
      ELSE [t1 EXCEPT !.editionHold = @ \cup {<<m.target.of, m.id>>}]

\* Why a hold is not placed: the patron's own limits, the book, the pool.
HoldFails(t, m) ==
  LET researcher == t.patron[m.patron]
      load == LoadOf(t, m.patron)
      onBook == m.target.kind = "book"
      book == t.book[m.target.of]
  IN  \/ m.open /\ ~researcher
      \/ ~researcher /\ load.open >= MaxHolds
      \/ load.overdue >= MaxOverdue
      \/ onBook /\ book.restricted /\ ~researcher
      \/ onBook /\ book.status # Open
      \/ /\ ~(onBook /\ book.restricted)
         /\ FreeCopies(t, IF onBook THEN book.isbn ELSE m.target.of) < 1

PredictHold(t, m) ==
  IF m.patron \notin DOMAIN t.patron \/ (m.target.kind = "book" /\ m.target.of \notin DOMAIN t.book)
  THEN Thrown(t)
  ELSE IF HoldFails(t, m) THEN [t EXCEPT !.patronNotice = @ \cup {<<m.patron, m.id>>}]
  ELSE OpenHold(t, m)

\* The librarians' record names the hold's patron.
PredictOwnedHold(t, m) ==
  LET u == PredictHold(t, m)
  IN  IF m.id \in DOMAIN u.hold THEN [u EXCEPT !.holdOwner = With(@, m.id, m.patron)] ELSE u

\* The patron's own hold that a checkout fulfills, if any: on the book, or on its
\* edition, the first in key order.
Ours(t, m) ==
  LET book == t.book[m.book]
      onBook == {h \in HoldIds : book.status = HeldBy(h) /\ <<m.patron, h>> \in DOMAIN t.patronHold}
      onEdition ==
        {k[2] : k \in {j \in HoldsOf(t, m.patron) :
                         t.patronHold[j].target = [kind |-> "edition", of |-> book.isbn]}}
      found == IF book.status = Open THEN onEdition ELSE onBook
  IN  {h \in found : \A g \in found : h <= g}

CheckoutFails(t, m, ours) ==
  LET researcher == t.patron[m.patron]
      load == LoadOf(t, m.patron)
      book == t.book[m.book]
  IN  \/ book.status.kind = "checkout"
      \/ book.restricted /\ ~researcher
      \/ ~researcher /\ ours = {} /\ load.open >= MaxHolds
      \/ load.overdue >= MaxOverdue
      \/ ours = {} /\ book.status # Open
      \/ ours = {} /\ ~book.restricted /\ FreeCopies(t, book.isbn) < 1

PredictCheckout(t, m) ==
  IF m.patron \notin DOMAIN t.patron \/ m.book \notin DOMAIN t.book THEN Thrown(t)
  ELSE LET ours == Ours(t, m)
           own == [book |-> m.book, expires |-> m.at + CheckoutTime, overdue |-> FALSE]
       IN  IF CheckoutFails(t, m, ours) THEN [t EXCEPT !.adminNotice = @ \cup {m.id}]
           ELSE [CloseAll(t, ours, FALSE) EXCEPT
                   !.checkout = With(@, m.id, own),
                   !.book[m.book].status = OutOn(m.id),
                   !.patronCheckout = With(@, <<m.patron, m.id>>, own),
                   !.checkoutOwner = With(@, m.id, m.patron)]

PredictReturn(t, m) ==
  IF m.id \notin DOMAIN t.checkout \/ t.checkout[m.id].book \notin DOMAIN t.book THEN Thrown(t)
  ELSE [t EXCEPT
          !.book[t.checkout[m.id].book].status = Open,
          !.checkout = Without(@, m.id),
          !.patronCheckout = Without(@, <<m.patron, m.id>>),
          !.checkoutOwner = Without(@, m.id)]

\* Restricting a book closes a hold on it by one who is no researcher, or takes
\* an open copy out of the pool; the holds close ahead of the change.
PredictRestricted(t, m) ==
  IF m.book \notin DOMAIN t.book THEN Thrown(t)
  ELSE LET book == t.book[m.book]
           newly == m.restricted /\ ~book.restricted
           owner == t.holdOwner[book.status.id]
           closed ==
             CASE newly /\ book.status = Open -> Overflow(t, book.isbn)
               [] newly /\ book.status.kind = "hold" ->
                    IF book.status.id \notin DOMAIN t.holdOwner \/ owner \notin DOMAIN t.patron
                    THEN Thrown(t)
                    ELSE IF t.patron[owner] THEN t ELSE CloseOwnedHold(t, book.status.id, TRUE)
               [] OTHER -> t
       IN  [closed EXCEPT !.book[m.book].restricted = m.restricted]

PredictRemoved(t, m) ==
  IF m.book \notin DOMAIN t.book THEN Thrown(t)
  ELSE LET book == t.book[m.book]
           closed ==
             CASE book.status.kind = "hold" -> CloseOwnedHold(t, book.status.id, TRUE)
               [] book.status = Open /\ ~book.restricted -> Overflow(t, book.isbn)
               [] OTHER -> t
       IN  [closed EXCEPT !.book = Without(@, m.book), !.editionBook = @ \ {<<book.isbn, m.book>>}]

\* A mutant of PredictAssigned: the holds stay.
MutPredictAssigned(t, m) ==
  IF m.patron \in DOMAIN t.patron THEN [t EXCEPT !.patron[m.patron] = m.researcher] ELSE Thrown(t)

\* One who is no longer a researcher loses their holds on restricted books.
PredictAssigned(t, m) ==
  IF m.patron \notin DOMAIN t.patron THEN Thrown(t)
  ELSE LET lost == {k[2] : k \in {j \in HoldsOf(t, m.patron) :
                      /\ t.patronHold[j].target.kind = "book"
                      /\ t.patronHold[j].target.of \in DOMAIN t.book
                      /\ t.book[t.patronHold[j].target.of].restricted}}
       IN  [CloseAll(t, IF m.researcher THEN {} ELSE lost, TRUE) EXCEPT
              !.patron[m.patron] = m.researcher]

AddEdition(t, m) == [t EXCEPT !.edition = @ \cup {m.isbn}]
AddBook(t, m) ==
  [t EXCEPT !.book = With(@, m.book, [isbn |-> m.isbn, restricted |-> m.restricted, status |-> Open]),
            !.editionBook = @ \cup {<<m.isbn, m.book>>}]

\* The two tables of predictors: what every mutation an Engine sends writes.
UserPredictor(t, m) ==
  CASE m.type = "try-hold" -> PredictHold(t, m)
    [] m.type = "cancel-hold" ->
         [ReleaseHold(t, m.id) EXCEPT !.patronHold = Without(@, <<m.patron, m.id>>)]
    [] m.type = "patron-dismiss-notice" -> [t EXCEPT !.patronNotice = @ \ {<<m.patron, m.id>>}]

AdminPredictor(t, m) ==
  CASE m.type = "try-hold" -> PredictOwnedHold(t, m)
    [] m.type = "patron-dismiss-notice" -> UserPredictor(t, m)
    [] m.type = "library-cancel-hold" ->
         [CloseHold(t, m.id, m.patron, TRUE) EXCEPT !.holdOwner = Without(@, m.id)]
    [] m.type = "try-checkout" -> PredictCheckout(t, m)
    [] m.type = "end-checkout" -> PredictReturn(t, m)
    [] m.type = "add-edition" -> AddEdition(t, m)
    [] m.type = "add-book" -> AddBook(t, m)
    [] m.type = "update-book-restricted" -> PredictRestricted(t, m)
    [] m.type = "remove-book" -> PredictRemoved(t, m)
    [] m.type = "assign-patron" -> PredictAssigned(t, m)
    [] m.type = "dismiss-notice" -> [t EXCEPT !.adminNotice = @ \ {m.id}]

-----------------------------------------------------------------------------
\* The deciders: who may send a mutation, and that what it names exists.

IsLibrarian(t, user) ==
  /\ user \in DOMAIN t.userLogin
  /\ t.userLogin[user] \in DOMAIN t.login
  /\ t.login[t.userLogin[user]].librarian

IsLibrarianOr(t, user, patron) == user = patron \/ IsLibrarian(t, user)

\* A signed-in patron's account: the librarians' is the operator's to manage.
OwnsAccount(t, user) ==
  /\ user \in DOMAIN t.userLogin
  /\ t.userLogin[user] \in DOMAIN t.login
  /\ ~t.login[t.userLogin[user]].librarian

Authorized(t, user, m) ==
  CASE m.type \in {"try-hold", "patron-dismiss-notice"} -> IsLibrarianOr(t, user, m.patron)
    [] m.type = "cancel-hold" -> user = m.patron
    [] m.type = "delete-account" -> OwnsAccount(t, user)
    [] m.type \in {"create-room", "create-account"} -> TRUE
    [] OTHER -> IsLibrarian(t, user)

\* A mutant of Accepted: a checked out book may be removed.
MutAccepted(t, user, m) ==
  CASE m.type = "try-hold" ->
         /\ m.patron \in DOMAIN t.patron /\ m.id \notin DOMAIN t.hold
         /\ IF m.target.kind = "book" THEN m.target.of \in DOMAIN t.book ELSE m.target.of \in t.edition
    [] m.type = "patron-dismiss-notice" -> <<m.patron, m.id>> \in t.patronNotice
    [] m.type \in {"cancel-hold", "library-cancel-hold"} -> <<m.patron, m.id>> \in DOMAIN t.patronHold
    [] m.type = "delete-account" -> CheckoutsOf(t, user) = {}
    [] m.type = "create-room" -> ~t.room
    [] m.type = "create-account" -> t.room /\ m.login \notin DOMAIN t.login
    [] m.type = "add-edition" -> m.isbn \notin t.edition
    [] m.type = "add-book" -> m.isbn \in t.edition /\ m.book \notin DOMAIN t.book
    [] m.type \in {"update-book-restricted", "remove-book"} -> m.book \in DOMAIN t.book
    [] m.type = "assign-patron" -> m.patron \in DOMAIN t.patron
    [] m.type = "try-checkout" ->
         /\ m.patron \in DOMAIN t.patron /\ m.book \in DOMAIN t.book
         /\ m.id \notin DOMAIN t.checkout
    [] m.type = "end-checkout" -> <<m.patron, m.id>> \in DOMAIN t.patronCheckout
    [] m.type = "dismiss-notice" -> m.id \in t.adminNotice

\* What a mutation names exists, and what it makes does not; a room that exists
\* is left as it is.
Accepted(t, user, m) ==
  CASE m.type = "try-hold" ->
         /\ m.patron \in DOMAIN t.patron /\ m.id \notin DOMAIN t.hold
         /\ IF m.target.kind = "book" THEN m.target.of \in DOMAIN t.book ELSE m.target.of \in t.edition
    [] m.type = "patron-dismiss-notice" -> <<m.patron, m.id>> \in t.patronNotice
    [] m.type \in {"cancel-hold", "library-cancel-hold"} -> <<m.patron, m.id>> \in DOMAIN t.patronHold
    [] m.type = "delete-account" -> CheckoutsOf(t, user) = {}
    [] m.type = "create-room" -> ~t.room
    [] m.type = "create-account" -> t.room /\ m.login \notin DOMAIN t.login
    [] m.type = "add-edition" -> m.isbn \notin t.edition
    [] m.type = "add-book" -> m.isbn \in t.edition /\ m.book \notin DOMAIN t.book
    [] m.type = "update-book-restricted" -> m.book \in DOMAIN t.book
    [] m.type = "remove-book" -> m.book \in DOMAIN t.book /\ t.book[m.book].status.kind # "checkout"
    [] m.type = "assign-patron" -> m.patron \in DOMAIN t.patron
    [] m.type = "try-checkout" ->
         /\ m.patron \in DOMAIN t.patron /\ m.book \in DOMAIN t.book
         /\ m.id \notin DOMAIN t.checkout
    [] m.type = "end-checkout" -> <<m.patron, m.id>> \in DOMAIN t.patronCheckout
    [] m.type = "dismiss-notice" -> m.id \in t.adminNotice

Except(table, patron) == [k \in {j \in DOMAIN table : j[1] # patron} |-> table[k]]

\* A patron's slice, deleted with its history.
DeletePatron(t, patron) ==
  [t EXCEPT !.patron = Without(@, patron), !.patronHold = Except(@, patron),
            !.patronCheckout = Except(@, patron),
            !.patronNotice = {k \in @ : k[1] # patron}]

AddLogin(t, login, user, librarian) ==
  [t EXCEPT !.login = With(@, login, [user |-> user, librarian |-> librarian]),
            !.userLogin = With(@, user, login)]

DeleteAccount(t, user) ==
  LET closed == FoldLeft(LAMBDA u, h : [ReleaseHold(u, h) EXCEPT !.holdOwner = Without(@, h)],
                         t, SetToSeq({k[2] : k \in HoldsOf(t, user)}))
  IN  DeletePatron([closed EXCEPT !.login = Without(@, t.userLogin[user]),
                                  !.userLogin = Without(@, user)], user)

CreateAccount(t, login, id, researcher) ==
  LET t1 == AddLogin(t, login, id, FALSE) IN [t1 EXCEPT !.patron = With(@, id, researcher)]

\* The seeded room; ids are the new users', one for each reader.
Seed(t, ids) ==
  LET catalog == [t EXCEPT
        !.edition = {c[1] : c \in Catalog}, !.editionBook = {<<c[1], c[3]>> : c \in Catalog},
        !.book = [b \in {c[3] : c \in Catalog} |->
                    LET copy == CHOOSE entry \in Catalog : entry[3] = b
                    IN  [isbn |-> copy[1], restricted |-> copy[2], status |-> Open]],
        !.room = TRUE]
      readers == SetToSeq(Readers)
      Add(u, i) == CreateAccount(u, readers[i][1], ids[i], readers[i][2])
  IN  AddLogin(FoldLeft(Add, catalog, [i \in 1..Len(readers) |-> i]), "admin", Clerk, TRUE)

Carried(t, user, m) ==
  CASE m.type = "cancel-hold" -> [UserPredictor(t, m) EXCEPT !.holdOwner = Without(@, m.id)]
    [] m.type = "delete-account" -> DeleteAccount(t, user)
    [] m.type = "create-room" -> Seed(t, m.ids)
    [] m.type = "create-account" -> CreateAccount(t, m.login, m.ids[1], FALSE)
    [] OTHER -> AdminPredictor(t, m)

-----------------------------------------------------------------------------
\* What an Engine signed in as a user syncs: a librarian's, all but the logins;
\* a patron's, the catalog and their own slice.

Synced(t, user) ==
  LET shared == [t EXCEPT !.login = <<>>, !.userLogin = <<>>]
      Own(table) == [k \in {j \in DOMAIN table : j[1] = user} |-> table[k]]
  IN  IF IsLibrarian(t, user) THEN shared
      ELSE [shared EXCEPT
              !.patron = [p \in DOMAIN @ \cap {user} |-> @[p]], !.patronHold = Own(@),
              !.patronCheckout = Own(@), !.patronNotice = {k \in @ : k[1] = user},
              !.adminNotice = {}, !.holdOwner = <<>>, !.checkoutOwner = <<>>]

\* What the Engine that sends a mutation shows of it at once.
Prediction(t, user, m) ==
  IF IsLibrarian(t, user) THEN AdminPredictor(Synced(t, user), m)
  ELSE UserPredictor(Synced(t, user), m)

Unpredicted == {"create-room", "create-account", "delete-account"}

OwnRecord(t, patron) == Synced([t EXCEPT !.userLogin = <<>>], patron).patronHold

\* A hold of a patron who is still there closed, neither by them nor into their
\* own checkout, and no notice says so.
Untold(t, u, m) ==
  \E k \in DOMAIN t.patronHold \ DOMAIN u.patronHold :
    /\ k[1] \in DOMAIN u.patron
    /\ ~(m.type \in {"cancel-hold", "try-checkout"} /\ m.patron = k[1])
    /\ k \notin u.patronNotice

Slips(t, u, user, m) ==
  {s \in {"threw", "mispredicted", "trespassed", "untold"} :
     CASE s = "threw" -> u.threw
       [] s = "mispredicted" ->
            m.type \notin Unpredicted /\ Prediction(t, user, m) # Synced(u, user)
       [] s = "trespassed" ->
            /\ user \in DOMAIN t.patron
            /\ \E p \in DOMAIN t.patron \ {user} : OwnRecord(t, p) # OwnRecord(u, p)
       [] OTHER -> Untold(t, u, m)}

\* A decider or a hook runs: a throw discards what it wrote.
Write(u, user, m) ==
  /\ sent < MaxSent
  /\ sent' = sent + 1
  /\ slips' = slips \cup Slips(db, u, user, m)
  /\ db' = IF u.threw THEN db ELSE u
  /\ scholars' = scholars \cup {p \in DOMAIN db'.patron : db'.patron[p]}

Decide(user, m) ==
  /\ Authorized(db, user, m) /\ Accepted(db, user, m)
  /\ Write(Carried(db, user, m), user, m)

-----------------------------------------------------------------------------
\* What may be sent.  A client mints the ids of holds and checkouts.

Targets == [kind : {"book"}, of : Copies] \cup [kind : {"edition"}, of : Isbns]

\* A patron's messages, which the librarians send for one too.
Requests(t) ==
  [type : {"try-hold"}, id : HoldIds, patron : DOMAIN t.patron, target : Targets,
   open : BOOLEAN, at : Times]
    \cup {[type |-> type, patron |-> k[1], id |-> k[2]] :
            type \in {"cancel-hold", "library-cancel-hold"}, k \in DOMAIN t.patronHold}
    \cup {[type |-> "patron-dismiss-notice", patron |-> k[1], id |-> k[2]] : k \in t.patronNotice}
    \cup {[type |-> "delete-account"]}

Send == \E user \in DOMAIN db.userLogin, m \in Requests(db) : Decide(user, m) /\ UNCHANGED minted

\* The librarians'.
Orders(t) ==
  [type : {"add-edition"}, isbn : Isbns]
    \cup [type : {"add-book"}, isbn : Isbns, book : Copies, restricted : BOOLEAN]
    \cup [type : {"update-book-restricted"}, book : Copies, restricted : BOOLEAN]
    \cup [type : {"remove-book"}, book : Copies]
    \cup [type : {"assign-patron"}, patron : DOMAIN t.patron, researcher : BOOLEAN]
    \cup [type : {"try-checkout"}, id : CheckoutIds, patron : DOMAIN t.patron, book : Copies, at : Times]
    \cup {[type |-> "end-checkout", patron |-> k[1], id |-> k[2]] : k \in DOMAIN t.patronCheckout}
    \cup [type : {"dismiss-notice"}, id : t.adminNotice]

Administer == \E m \in Orders(db) : Decide(Clerk, m) /\ UNCHANGED minted

\* The ids of n new users, the next ones, if that many may come.
NewIds(n) ==
  IF n > Cardinality(People \ minted) THEN {} ELSE {SubSeq(SetToSeq(People \ minted), 1, n)}

Registrations ==
  [type : {"create-account"}, login : LoginNames, ids : NewIds(1)]
    \cup [type : {"create-room"}, ids : NewIds(Cardinality(Readers))]

SignUp == \E m \in Registrations : Decide(Clerk, m) /\ minted' = minted \cup ToSet(m.ids)

Expired(t, now) == {h \in DOMAIN t.hold : \E day \in t.hold[h].expires : day <= now}
Overdue(t, now) == {c \in DOMAIN t.checkout : ~t.checkout[c].overdue /\ t.checkout[c].expires <= now}

\* The hook of the daily sheet: closed-ended holds past their expiry close, and
\* checkouts past theirs become overdue.
DailySheet(t, now) ==
  LET closed == CloseAll(t, Expired(t, now), TRUE)
      Mark(u, c) ==
        IF c \notin DOMAIN u.checkoutOwner THEN Thrown(u)
        ELSE [u EXCEPT !.checkout[c].overdue = TRUE,
                       !.patronCheckout[<<u.checkoutOwner[c], c>>].overdue = TRUE]
  IN  FoldLeft(Mark, closed, SetToSeq(Overdue(closed, now)))

\* The reaper's hook: every slice of a room an hour old is deleted.
Reaped(t) ==
  [FoldLeft(DeletePatron, t, SetToSeq(DOMAIN t.patron)) EXCEPT
     !.edition = {}, !.book = <<>>, !.editionBook = {}, !.hold = <<>>, !.editionHold = {},
     !.checkout = <<>>, !.adminNotice = {}, !.holdOwner = <<>>, !.checkoutOwner = <<>>,
     !.login = <<>>, !.userLogin = <<>>, !.room = FALSE]

Tick(type, u) ==
  /\ sent < MaxSent /\ sent' = sent + 1
  /\ slips' = slips \cup {s \in {"threw", "untold"} :
                           IF s = "threw" THEN u.threw ELSE Untold(db, u, [type |-> type])}
  /\ db' = IF u.threw THEN db ELSE u
  /\ UNCHANGED <<minted, scholars>>

Ticks ==
  \/ \E now \in Times, later \in {HoldTime, CheckoutTime} :
       Tick("daily-sheet", DailySheet(db, now + later))
  \/ db.room /\ Tick("reap-rooms", Reaped(db))

LibraryInit == db = NoRoom /\ minted = {} /\ scholars = {} /\ sent = 0 /\ slips = {}

LibraryNext == Send \/ Administer \/ SignUp \/ Ticks

-----------------------------------------------------------------------------
\* The queries of the windows.

\* How many copies a patron is told an edition has for them, which is what a
\* hold on it would find.
AvailableNormal(t, isbn) ==
  Cardinality({b \in DOMAIN t.book :
                 t.book[b].isbn = isbn /\ t.book[b].status = Open /\ ~t.book[b].restricted})
    - Cardinality(EditionHolds(t, isbn))

\* What the librarians are shown of a book: an edition's holds on its first open
\* unrestricted copies, oldest first.
ShownAs(t, b) ==
  LET isbn == t.book[b].isbn
      copies == SelectSeq(SetToSeq(DOMAIN t.book), LAMBDA c : c \in Pool(t, isbn))
      holds == SetToSortSeq(EditionHolds(t, isbn) \cap DOMAIN t.hold,
                            LAMBDA g, h : t.hold[g].at < t.hold[h].at \/ (t.hold[g].at = t.hold[h].at /\ g < h))
      places == {i \in 1..Len(copies) : copies[i] = b}
  IN  CASE t.book[b].status # Open -> t.book[b].status
        [] \E i \in places : i <= Len(holds) -> HeldBy(holds[CHOOSE i \in places : TRUE])
        [] OTHER -> Open

\* A hold is in the catalog, in its patron's slice, in the librarians' record and
\* on its book or in its edition's index, or in none; so is a checkout.
RecordsAgree ==
  /\ DOMAIN db.holdOwner = DOMAIN db.hold
  /\ DOMAIN db.patronHold = {<<db.holdOwner[h], h>> : h \in DOMAIN db.hold}
  /\ \A h \in DOMAIN db.hold : db.patronHold[<<db.holdOwner[h], h>>] =
       [target |-> db.hold[h].target, expires |-> db.hold[h].expires]
  /\ db.editionHold = {<<db.hold[h].target.of, h>> :
       h \in {g \in DOMAIN db.hold : db.hold[g].target.kind = "edition"}}
  /\ \A h \in DOMAIN db.hold, b \in DOMAIN db.book :
       (db.hold[h].target = [kind |-> "book", of |-> b]) <=> (db.book[b].status = HeldBy(h))
  /\ DOMAIN db.checkoutOwner = DOMAIN db.checkout
  /\ db.patronCheckout = [k \in {<<db.checkoutOwner[c], c>> : c \in DOMAIN db.checkout} |->
       db.checkout[k[2]]]
  /\ \A c \in DOMAIN db.checkout, b \in DOMAIN db.book :
       (db.checkout[c].book = b) <=> (db.book[b].status = OutOn(c))
  /\ \A b \in DOMAIN db.book : \/ db.book[b].status = Open
                               \/ db.book[b].status \in {HeldBy(h) : h \in DOMAIN db.hold}
                               \/ db.book[b].status \in {OutOn(c) : c \in DOMAIN db.checkout}
  /\ \A k \in DOMAIN db.patronHold \cup DOMAIN db.patronCheckout \cup db.patronNotice :
       k[1] \in DOMAIN db.patron
  /\ DOMAIN db.userLogin = {db.login[l].user : l \in DOMAIN db.login}
  /\ \A l \in DOMAIN db.login : db.userLogin[db.login[l].user] = l
  /\ DOMAIN db.patron = {db.login[l].user : l \in {n \in DOMAIN db.login : ~db.login[n].librarian}}

\* An edition's holds never outnumber its open unrestricted copies, a restricted
\* book is held by researchers alone, and one who never was a researcher stays
\* within the limit.
HoldsFit ==
  /\ \A i \in Isbns : FreeCopies(db, i) >= 0
  /\ \A b \in DOMAIN db.book :
       db.book[b].restricted /\ db.book[b].status.kind = "hold"
         => db.patron[db.holdOwner[db.book[b].status.id]]
  /\ \A p \in DOMAIN db.patron \ scholars : LoadOf(db, p).open <= MaxHolds

\* The windows show every hold on one copy and every copy left to hold.
WindowsTell ==
  /\ \A h \in DOMAIN db.hold : Cardinality({b \in DOMAIN db.book : ShownAs(db, b) = HeldBy(h)}) = 1
  /\ \A i \in Isbns : AvailableNormal(db, i) =
       Cardinality({b \in Pool(db, i) : ShownAs(db, b) = Open})

\* What the library keeps in several places agrees after every mutation, its
\* holds fit its copies, no decider or hook throws, what a synced Engine predicts
\* is what the database decides, no patron's mutation touches another's holds, no
\* hold closes behind its patron's back, and the windows show each where it is.  (deciders, adminPredictors)
LibraryHolds == RecordsAgree /\ HoldsFit /\ WindowsTell /\ slips = {}
=============================================================================
