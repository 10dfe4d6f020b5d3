-------------------------- MODULE KitSchemaProofs --------------------------
(***************************************************************************)
(* What holds of KitSchema for any number of kits, tasks and databases.    *)
(*                                                                         *)
(* The inductive invariant adds to the properties of KitSchema what the    *)
(* calls in progress carry from one await to the next: the rows a load has *)
(* read are the kit's own and have a stamp in the store; a schema about to *)
(* be saved is one introspection's; one about to be installed is saved.    *)
(***************************************************************************)
EXTENDS KitSchema, TLAPS

WasSaved(stamp) == \E x \in saved : x.at = stamp

\* tables come with a stamp, and a stamp is that of a save
StoreIsStamped ==
    /\ \A d \in Databases : stored[d] # None => storedAt # 0
    /\ storedAt # 0 => WasSaved(storedAt)

\* what task t carries between two awaits
CarriesOwnRows(t) ==
    /\ call[t].rows # None => call[t].rows.db = DbOf[KitOf[t]] /\ storedAt # 0
    /\ call[t].meta # None /\ call[t].meta.tables # None
          => call[t].meta.tables.db = DbOf[KitOf[t]]

CarriesSchema(t) ==
    /\ call[t].at \in {"save", "install"} => call[t].meta # None
    /\ call[t].at = "save" /\ call[t].meta.tables # None
          => call[t].meta.tables.at = call[t].meta.extracted
    /\ call[t].at \in {"loaded", "install"} /\ call[t].meta # None /\ HasEngine
          => WasSaved(call[t].meta.extracted)

CallsAreSound == \A t \in Tasks : CarriesOwnRows(t) /\ CarriesSchema(t)

KitInv ==
    /\ KitTypeOK
    /\ VersionOfHeldSchema
    /\ OwnDatabaseOnly
    /\ RowsAndStampAgree
    /\ HeldVersionWasSaved
    /\ StoreIsStamped
    /\ CallsAreSound

----------------------------------------------------------------------------
(* How the call of one task moves on. *)

CallRecord == [at : CallStep, rows : Snapshot \cup {None}, meta : Schema \cup {None}]

Moves(t, c) ==
    /\ call' \in [Tasks -> CallRecord]
    /\ call'[t] = c
    /\ \A u \in Tasks \ {t} : call'[u] = call[u]

\* GoTo changes where the call is and nothing it carries.
LEMMA GoToMoves ==
    ASSUME KitTypeOK, NEW t \in Tasks, NEW step \in CallStep, GoTo(t, step)
    PROVE  Moves(t, [at |-> step, rows |-> call[t].rows, meta |-> call[t].meta])
BY DEF KitTypeOK, GoTo, Moves, CallRecord

\* A step that sets the rows a load has read.
LEMMA RowsMove ==
    ASSUME KitTypeOK, NEW t \in Tasks, NEW step \in CallStep,
           NEW rows \in Snapshot \cup {None},
           call' = [call EXCEPT ![t].at = step, ![t].rows = rows]
    PROVE  Moves(t, [at |-> step, rows |-> rows, meta |-> call[t].meta])
BY DEF KitTypeOK, Moves, CallRecord

\* A step that sets the schema to be installed.
LEMMA MetaMoves ==
    ASSUME KitTypeOK, NEW t \in Tasks, NEW step \in CallStep,
           NEW meta \in Schema \cup {None},
           call' = [call EXCEPT ![t].at = step, ![t].meta = meta]
    PROVE  Moves(t, [at |-> step, rows |-> call[t].rows, meta |-> meta])
BY DEF KitTypeOK, Moves, CallRecord

\* The end of a call.
LEMMA IdleMoves ==
    ASSUME KitTypeOK, NEW t \in Tasks, call' = [call EXCEPT ![t] = Idle]
    PROVE  Moves(t, Idle)
BY DEF KitTypeOK, Moves, CallRecord, Idle, CallStep

\* The calls of the other tasks stay sound while the store only gains saves.
LEMMA OthersStaySound ==
    ASSUME CallsAreSound, NEW t \in Tasks, NEW c, Moves(t, c),
           saved \subseteq saved', storedAt # 0 => storedAt' # 0,
           (CarriesOwnRows(t) /\ CarriesSchema(t))'
    PROVE  CallsAreSound'
<1>1. SUFFICES ASSUME NEW u \in Tasks \ {t} PROVE (CarriesOwnRows(u) /\ CarriesSchema(u))'
    BY DEF CallsAreSound
<1>2. call'[u] = call[u]
    BY DEF Moves
<1>3. CarriesOwnRows(u)'
    BY <1>2 DEF CallsAreSound, CarriesOwnRows
<1>4. CarriesSchema(u)'
    BY <1>2 DEF CallsAreSound, CarriesSchema, WasSaved
<1>5. QED
    BY <1>3, <1>4

\* A step that only moves a call on keeps the invariant if the call stays sound.
LEMMA CallOnlyStep ==
    ASSUME KitInv, NEW t \in Tasks, NEW c, Moves(t, c),
           UNCHANGED <<clock, kitVars, storeVars>>,
           (CarriesOwnRows(t) /\ CarriesSchema(t))'
    PROVE  KitInv'
<1>1. CallsAreSound'
    BY OthersStaySound DEF KitInv, storeVars
<1>2. KitTypeOK'
    BY DEF KitInv, KitTypeOK, Moves, CallRecord, kitVars, storeVars
<1>3. (VersionOfHeldSchema /\ OwnDatabaseOnly /\ HeldVersionWasSaved)'
    BY DEF KitInv, VersionOfHeldSchema, OwnDatabaseOnly, HeldVersionWasSaved, HoldsSchema,
           kitVars, storeVars
<1>4. (RowsAndStampAgree /\ StoreIsStamped)'
    BY DEF KitInv, RowsAndStampAgree, StoreIsStamped, WasSaved, storeVars
<1>5. QED
    BY <1>1, <1>2, <1>3, <1>4 DEF KitInv

----------------------------------------------------------------------------
(* The initial states, and one lemma per kind of step. *)

\* An empty store, kits without a schema and no calls are sound.
LEMMA KitInvInit == KitInit => KitInv
<1> SUFFICES ASSUME KitInit PROVE KitInv
    OBVIOUS
<1> USE KitAssumption DEF KitInit
<1>1. KitTypeOK
    BY DEF KitTypeOK, Idle, CallStep
<1>2. VersionOfHeldSchema /\ OwnDatabaseOnly /\ HeldVersionWasSaved
    BY DEF VersionOfHeldSchema, OwnDatabaseOnly, HeldVersionWasSaved, HoldsSchema
<1>3. RowsAndStampAgree /\ StoreIsStamped
    BY DEF RowsAndStampAgree, StoreIsStamped
<1>4. CallsAreSound
    BY DEF CallsAreSound, CarriesOwnRows, CarriesSchema, Idle
<1>5. QED
    BY <1>1, <1>2, <1>3, <1>4 DEF KitInv

\* A call begins, passes its ping or is abandoned: it carries what it carried, or
\* nothing.
LEMMA CallMovesOn ==
    ASSUME KitInv, NEW t \in Tasks, CallBegins(t) \/ Pinged(t) \/ Abandon(t)
    PROVE  KitInv'
<1> USE KitAssumption
<1>1. UNCHANGED <<clock, kitVars, storeVars>>
    BY DEF CallBegins, BeginGet, BeginRefresh, BeginInit, Pinged, Abandon
<1>2. KitTypeOK
    BY DEF KitInv
<1>3. CASE Abandon(t)
  <2>1. Moves(t, Idle)
    BY <1>2, <1>3, IdleMoves DEF Abandon
  <2>2. (CarriesOwnRows(t) /\ CarriesSchema(t))'
    BY <2>1 DEF Moves, Idle, CarriesOwnRows, CarriesSchema
  <2>3. QED
    BY <1>1, <2>1, <2>2, CallOnlyStep
<1>4. CASE CallBegins(t) \/ Pinged(t)
  <2>1. PICK step \in {"rows", "introspect", "ping"} : GoTo(t, step)
    BY <1>4 DEF CallBegins, BeginGet, BeginRefresh, BeginInit, Pinged
  <2> DEFINE c == [at |-> step, rows |-> call[t].rows, meta |-> call[t].meta]
  <2>2. Moves(t, c)
    BY <1>2, <2>1, GoToMoves DEF CallStep
  <2>3. CarriesOwnRows(t)'
    BY <1>1, <2>2 DEF Moves, KitInv, CallsAreSound, CarriesOwnRows, storeVars
  <2>4. CarriesSchema(t)'
    BY <2>2 DEF Moves, CarriesSchema
  <2>5. QED
    BY <1>1, <2>2, <2>3, <2>4, CallOnlyStep
<1>5. QED
    BY <1>3, <1>4

\* The rows a load reads are those of the kit's database and have a stamp.
LEMMA LoadRowsStep == ASSUME KitInv, NEW t \in Tasks, LoadRows(t) PROVE KitInv'
<1> USE KitAssumption
<1> DEFINE rows == stored[DbOf[KitOf[t]]]
           c == [at |-> "stamp", rows |-> rows, meta |-> call[t].meta]
<1>1. UNCHANGED <<clock, kitVars, storeVars>>
    BY DEF LoadRows
<1>2. KitTypeOK /\ rows \in Snapshot \cup {None}
    BY DEF KitInv, KitTypeOK
<1>3. Moves(t, c)
    BY <1>2, RowsMove DEF LoadRows, CallStep
<1>4. rows # None => rows.db = DbOf[KitOf[t]] /\ storedAt # 0
    BY DEF KitInv, OwnDatabaseOnly, StoreIsStamped
<1>5. CarriesOwnRows(t)'
    BY <1>1, <1>3, <1>4 DEF Moves, KitInv, CallsAreSound, CarriesOwnRows, storeVars
<1>6. CarriesSchema(t)'
    BY <1>3 DEF Moves, CarriesSchema
<1>7. QED
    BY <1>1, <1>3, <1>5, <1>6, CallOnlyStep

\* A load that has rows finds a stamp, the one of some save.
LEMMA LoadStampStep == ASSUME KitInv, NEW t \in Tasks, LoadStamp(t) PROVE KitInv'
<1> USE KitAssumption
<1> DEFINE rows == call[t].rows
           stamp == IF storedAt = 0 THEN clock ELSE storedAt
           meta == Built(rows, stamp)
           c == [at |-> "loaded", rows |-> rows, meta |-> meta]
<1>1. UNCHANGED <<clock, kitVars, storeVars>>
    BY DEF LoadStamp
<1>2. KitTypeOK /\ rows \in Snapshot \cup {None}
    BY DEF KitInv, KitTypeOK
<1>3. rows # None => /\ rows.db = DbOf[KitOf[t]]
                     /\ stamp = storedAt
                     /\ storedAt \in 1..MaxClock
                     /\ WasSaved(storedAt)
    BY DEF KitInv, KitTypeOK, CallsAreSound, CarriesOwnRows, StoreIsStamped
<1>4. meta \in Schema \cup {None}
    BY <1>2, <1>3 DEF Built, Schema
<1>5. meta # None => rows # None /\ meta.tables = rows /\ meta.extracted = storedAt
    BY <1>3 DEF Built
<1> HIDE DEF meta
<1>6. Moves(t, c)
    BY <1>2, <1>4, MetaMoves DEF LoadStamp, CallStep, meta
<1>7. CarriesOwnRows(t)'
    BY <1>1, <1>3, <1>5, <1>6 DEF Moves, CarriesOwnRows, storeVars
<1>8. CarriesSchema(t)'
    BY <1>1, <1>3, <1>5, <1>6 DEF Moves, CarriesSchema, WasSaved, storeVars
<1>9. QED
    BY <1>1, <1>6, <1>7, <1>8, CallOnlyStep

\* An introspection takes a new stamp and reads the kit's own database.
LEMMA IntrospectStep == ASSUME KitInv, NEW t \in Tasks, Introspect(t) PROVE KitInv'
<1> USE KitAssumption
<1> DEFINE step == IF HasEngine THEN "save" ELSE "install"
<1>1. UNCHANGED <<kitVars, storeVars>> /\ clock' = clock + 1 /\ clock' \in 1..MaxClock
    BY DEF Introspect, KitInv, KitTypeOK
<1>2. PICK tables \in {None, [db |-> DbOf[KitOf[t]], at |-> clock + 1]} :
         call' = [call EXCEPT ![t].at = step,
                              ![t].meta = [tables |-> tables, extracted |-> clock + 1]]
    BY DEF Introspect
<1> DEFINE meta == [tables |-> tables, extracted |-> clock + 1]
           c == [at |-> step, rows |-> call[t].rows, meta |-> meta]
<1>3. meta \in Schema
    BY <1>1 DEF Schema, Snapshot
<1>4. Moves(t, c)
  <2>1. KitTypeOK /\ step \in CallStep
    BY DEF KitInv, CallStep
  <2>2. QED
    BY <1>2, <1>3, <2>1, MetaMoves
<1>5. KitTypeOK'
    BY <1>1, <1>4 DEF KitInv, KitTypeOK, Moves, CallRecord, kitVars, storeVars
<1>6. (VersionOfHeldSchema /\ OwnDatabaseOnly /\ HeldVersionWasSaved)'
    BY <1>1 DEF KitInv, VersionOfHeldSchema, OwnDatabaseOnly, HeldVersionWasSaved,
                HoldsSchema, kitVars, storeVars
<1>7. (RowsAndStampAgree /\ StoreIsStamped)'
    BY <1>1 DEF KitInv, RowsAndStampAgree, StoreIsStamped, WasSaved, storeVars
<1>8. (CarriesOwnRows(t) /\ CarriesSchema(t))'
  <2>1. CarriesOwnRows(t)'
    BY <1>1, <1>4 DEF Moves, KitInv, CallsAreSound, CarriesOwnRows, storeVars
  <2>2. CarriesSchema(t)'
    BY <1>3, <1>4 DEF Moves, CarriesSchema
  <2>3. QED
    BY <2>1, <2>2
<1>9. CallsAreSound'
    BY <1>1, <1>4, <1>8, OthersStaySound DEF KitInv, storeVars
<1>10. QED
    BY <1>5, <1>6, <1>7, <1>9 DEF KitInv

\* A save writes the tables of one introspection with its stamp.
LEMMA SaveStep == ASSUME KitInv, NEW t \in Tasks, Save(t) PROVE KitInv'
<1> USE KitAssumption
<1> DEFINE d == DbOf[KitOf[t]]
           meta == call[t].meta
           c == [at |-> "install", rows |-> call[t].rows, meta |-> meta]
<1>1. /\ stored' = [stored EXCEPT ![d] = meta.tables]
      /\ storedAt' = meta.extracted
      /\ saved' = saved \cup {[db |-> d, at |-> meta.extracted]}
      /\ UNCHANGED <<clock, kitVars>>
    BY DEF Save
<1>2. d \in Databases /\ meta \in Schema /\ KitTypeOK
    BY DEF Save, KitInv, KitTypeOK, CallsAreSound, CarriesSchema
<1>3. /\ meta.tables \in Snapshot \cup {None}
      /\ meta.extracted \in 1..MaxClock
      /\ meta # None
      /\ meta.tables # None => meta.tables.db = d /\ meta.tables.at = meta.extracted
    BY <1>2 DEF Save, Schema, KitInv, CallsAreSound, CarriesOwnRows, CarriesSchema
<1>4. Moves(t, c)
    BY <1>2, GoToMoves DEF Save, CallStep
<1>5. saved \subseteq saved' /\ \E x \in saved' : x.at = meta.extracted
  <2> DEFINE x == [db |-> d, at |-> meta.extracted]
  <2>1. x \in saved' /\ x.at = meta.extracted
    BY <1>1
  <2>2. QED
    BY <1>1, <2>1
<1>6. CarriesOwnRows(t)' /\ CarriesSchema(t)'
  <2>1. CarriesOwnRows(t)'
    BY <1>1, <1>3, <1>4 DEF Moves, KitInv, CallsAreSound, CarriesOwnRows
  <2>2. CarriesSchema(t)'
    BY <1>3, <1>4, <1>5 DEF Moves, CarriesSchema, WasSaved
  <2>3. QED
    BY <2>1, <2>2
<1>7. CallsAreSound'
  <2>1. storedAt' # 0
    BY <1>1, <1>3
  <2>2. QED
    BY <1>4, <1>5, <1>6, <2>1, OthersStaySound DEF KitInv
<1> HIDE DEF d, meta
<1>8. KitTypeOK'
    BY <1>1, <1>2, <1>3, <1>4 DEF KitTypeOK, Moves, CallRecord, kitVars, Snapshot
<1>9. (VersionOfHeldSchema /\ HeldVersionWasSaved)'
    BY <1>1 DEF KitInv, VersionOfHeldSchema, HeldVersionWasSaved, HoldsSchema, kitVars
<1>10. OwnDatabaseOnly'
    BY <1>1, <1>2, <1>3 DEF KitInv, KitTypeOK, OwnDatabaseOnly, HoldsSchema, kitVars
<1>11. RowsAndStampAgree'
  <2> SUFFICES ASSUME NEW e \in Databases, stored'[e] # None
               PROVE  storedAt' = stored'[e].at \/ \E x \in saved' : x.db # e
    BY DEF RowsAndStampAgree
  <2>1. CASE e = d
    BY <1>1, <1>2, <1>3, <2>1 DEF KitTypeOK
  <2>2. CASE e # d
    <3> DEFINE x == [db |-> d, at |-> meta.extracted]
    <3>1. x \in saved' /\ x.db # e
      BY <1>1, <2>2
    <3>2. QED
      BY <3>1
  <2>3. QED
    BY <2>1, <2>2
<1>12. StoreIsStamped'
    BY <1>1, <1>3, <1>5 DEF StoreIsStamped, WasSaved
<1>13. QED
    BY <1>7, <1>8, <1>9, <1>10, <1>11, <1>12 DEF KitInv

\* A schema is installed: one that was loaded, or one that was introspected and,
\* on an SQL backend, saved.
LEMMA InstallStep ==
    ASSUME KitInv, NEW t \in Tasks, ReturnLoaded(t) \/ InstallRefreshed(t)
    PROVE  KitInv'
<1> USE KitAssumption
<1> DEFINE k == KitOf[t]
           meta == call[t].meta
<1>1. /\ kitSchema' = [kitSchema EXCEPT ![k] = meta]
      /\ kitVersion' = [kitVersion EXCEPT ![k] = meta.extracted]
      /\ call' = [call EXCEPT ![t] = Idle]
      /\ UNCHANGED <<clock, storeVars>>
    BY DEF ReturnLoaded, InstallRefreshed
<1>2. KitTypeOK /\ k \in Kits
    BY DEF KitInv
<1>3. /\ meta \in Schema
      /\ meta # None
      /\ meta.tables # None => meta.tables.db = DbOf[k]
      /\ HasEngine => \E x \in saved : x.at = meta.extracted
    BY <1>2 DEF ReturnLoaded, InstallRefreshed, KitInv, KitTypeOK, CallsAreSound,
                CarriesOwnRows, CarriesSchema, WasSaved
<1>4. meta.extracted \in 1..MaxClock
    BY <1>3 DEF Schema
<1>5. Moves(t, Idle)
    BY <1>1, <1>2, IdleMoves
<1>6. CallsAreSound'
  <2>1. (CarriesOwnRows(t) /\ CarriesSchema(t))'
    BY <1>5 DEF Moves, Idle, CarriesOwnRows, CarriesSchema
  <2>2. QED
    BY <1>1, <1>5, <2>1, OthersStaySound DEF KitInv, storeVars
<1> HIDE DEF k, meta
<1>7. KitTypeOK'
    BY <1>1, <1>2, <1>3, <1>4, <1>5 DEF KitTypeOK, Moves, CallRecord, storeVars
<1>8. VersionOfHeldSchema'
    BY <1>1, <1>2 DEF KitInv, KitTypeOK, VersionOfHeldSchema, HoldsSchema
<1>9. OwnDatabaseOnly'
    BY <1>1, <1>2, <1>3 DEF KitInv, KitTypeOK, OwnDatabaseOnly, HoldsSchema, storeVars
<1>10. HeldVersionWasSaved'
    BY <1>1, <1>2, <1>3 DEF KitInv, KitTypeOK, HeldVersionWasSaved, HoldsSchema, storeVars
<1>11. (RowsAndStampAgree /\ StoreIsStamped)'
    BY <1>1 DEF KitInv, RowsAndStampAgree, StoreIsStamped, WasSaved, storeVars
<1>12. QED
    BY <1>6, <1>7, <1>8, <1>9, <1>10, <1>11 DEF KitInv

\* A load that found nothing empties the kit and goes on to introspect.
LEMMA MissLoadedStep == ASSUME KitInv, NEW t \in Tasks, MissLoaded(t) PROVE KitInv'
<1> USE KitAssumption
<1> DEFINE k == KitOf[t]
           c == [at |-> "introspect", rows |-> call[t].rows, meta |-> call[t].meta]
<1>1. /\ kitSchema' = [kitSchema EXCEPT ![k] = None]
      /\ UNCHANGED <<clock, kitVersion, storeVars>>
    BY DEF MissLoaded
<1>2. KitTypeOK /\ k \in Kits
    BY DEF KitInv
<1>3. Moves(t, c)
    BY <1>2, GoToMoves DEF MissLoaded, CallStep
<1>4. CallsAreSound'
  <2>1. CarriesOwnRows(t)'
    BY <1>1, <1>3 DEF Moves, KitInv, CallsAreSound, CarriesOwnRows, storeVars
  <2>2. CarriesSchema(t)'
    BY <1>3 DEF Moves, CarriesSchema
  <2>3. QED
    BY <1>1, <1>3, <2>1, <2>2, OthersStaySound DEF KitInv, storeVars
<1>5. KitTypeOK'
    BY <1>1, <1>2, <1>3 DEF KitTypeOK, Moves, CallRecord, storeVars
<1>6. (VersionOfHeldSchema /\ OwnDatabaseOnly /\ HeldVersionWasSaved)'
    BY <1>1, <1>2 DEF KitInv, KitTypeOK, VersionOfHeldSchema, OwnDatabaseOnly,
                      HeldVersionWasSaved, HoldsSchema, storeVars
<1>7. (RowsAndStampAgree /\ StoreIsStamped)'
    BY <1>1 DEF KitInv, RowsAndStampAgree, StoreIsStamped, WasSaved, storeVars
<1>8. QED
    BY <1>4, <1>5, <1>6, <1>7 DEF KitInv

\* A restart empties the kit and drops its calls; the store stays.
LEMMA RestartStep == ASSUME KitInv, NEW k \in Kits, Restart(k) PROVE KitInv'
<1> USE KitAssumption
<1>1. /\ kitSchema' = [kitSchema EXCEPT ![k] = None]
      /\ kitVersion' = [kitVersion EXCEPT ![k] = 0]
      /\ call' = [t \in Tasks |-> IF KitOf[t] = k THEN Idle ELSE call[t]]
      /\ UNCHANGED <<clock, storeVars>>
    BY DEF Restart
<1>2. CallsAreSound'
  <2> SUFFICES ASSUME NEW t \in Tasks PROVE (CarriesOwnRows(t) /\ CarriesSchema(t))'
    BY DEF CallsAreSound
  <2>1. call'[t] = Idle \/ call'[t] = call[t]
    BY <1>1
  <2>2. CarriesOwnRows(t)'
    BY <1>1, <2>1 DEF KitInv, CallsAreSound, CarriesOwnRows, Idle, storeVars
  <2>3. CarriesSchema(t)'
    BY <1>1, <2>1 DEF KitInv, CallsAreSound, CarriesSchema, WasSaved, Idle, storeVars
  <2>4. QED
    BY <2>2, <2>3
<1>3. KitTypeOK'
    BY <1>1 DEF KitInv, KitTypeOK, Idle, CallStep, storeVars
<1>4. (VersionOfHeldSchema /\ OwnDatabaseOnly /\ HeldVersionWasSaved)'
    BY <1>1 DEF KitInv, KitTypeOK, VersionOfHeldSchema, OwnDatabaseOnly,
                HeldVersionWasSaved, HoldsSchema, storeVars
<1>5. (RowsAndStampAgree /\ StoreIsStamped)'
    BY <1>1 DEF KitInv, RowsAndStampAgree, StoreIsStamped, WasSaved, storeVars
<1>6. QED
    BY <1>2, <1>3, <1>4, <1>5 DEF KitInv

\* A step that changes nothing.
LEMMA KitStutter == ASSUME KitInv, UNCHANGED schemaVars PROVE KitInv'
<1>1. /\ UNCHANGED <<clock, kitSchema, kitVersion, stored, storedAt, saved, call>>
    BY DEF schemaVars, kitVars, storeVars
<1>2. KitTypeOK' /\ (VersionOfHeldSchema /\ OwnDatabaseOnly)'
    BY <1>1 DEF KitInv, KitTypeOK, VersionOfHeldSchema, OwnDatabaseOnly, HoldsSchema
<1>3. (HeldVersionWasSaved /\ RowsAndStampAgree /\ StoreIsStamped)'
    BY <1>1 DEF KitInv, HeldVersionWasSaved, RowsAndStampAgree, StoreIsStamped, WasSaved,
                HoldsSchema
<1>4. CallsAreSound'
    BY <1>1 DEF KitInv, CallsAreSound, CarriesOwnRows, CarriesSchema, WasSaved
<1>5. QED
    BY <1>2, <1>3, <1>4 DEF KitInv

----------------------------------------------------------------------------
(* The theorems. *)

\* Every step keeps the invariant.
LEMMA KitInvStep == KitInv /\ [KitNext]_schemaVars => KitInv'
<1> SUFFICES ASSUME KitInv, [KitNext]_schemaVars PROVE KitInv'
    OBVIOUS
<1>1. ASSUME NEW t \in Tasks, CallBegins(t) \/ CallAdvances(t) \/ CallEnds(t)
      PROVE  KitInv'
    BY <1>1, CallMovesOn, LoadRowsStep, LoadStampStep, MissLoadedStep, IntrospectStep,
       SaveStep, InstallStep DEF CallAdvances, CallEnds
<1>2. ASSUME NEW k \in Kits, Restart(k) PROVE KitInv'
    BY <1>2, RestartStep
<1>3. CASE UNCHANGED schemaVars
    BY <1>3, KitStutter
<1>4. QED
    BY <1>1, <1>2, <1>3 DEF KitNext

\* The inductive invariant holds of every behaviour (pipeline.py, get_schema,
\* refresh_schema and init; db/cache.py, load_schema and save_schema).
THEOREM KitInvariance == KitSpec => []KitInv
    BY KitInvInit, KitInvStep, PTL DEF KitSpec

\* Every variable keeps its type; what is installed is always a schema with a stamp
\* (get_schema asserts it).
THEOREM KitTypeCorrect == KitSpec => []KitTypeOK
<1>1. KitInv => KitTypeOK
    BY DEF KitInv
<1>2. QED
    BY <1>1, KitInvariance, PTL

\* The version in the cache keys is that of the schema the kit holds, for any number
\* of tasks on a kit (the assignments of _schema and _schema_version).
THEOREM VersionIsHeldSchemas == KitSpec => []VersionOfHeldSchema
<1>1. KitInv => VersionOfHeldSchema
    BY DEF KitInv
<1>2. QED
    BY <1>1, KitInvariance, PTL

\* Databases that share a meta store never see each other's tables (the db_key
\* filters of load_schema and save_schema).
THEOREM DatabasesStayApart == KitSpec => []OwnDatabaseOnly
<1>1. KitInv => OwnDatabaseOnly
    BY DEF KitInv
<1>2. QED
    BY <1>1, KitInvariance, PTL

\* A store used for one database is never torn (save_schema commits once).
THEOREM StoreIsNotTorn == KitSpec => []RowsAndStampAgree
<1>1. KitInv => RowsAndStampAgree
    BY DEF KitInv
<1>2. QED
    BY <1>1, KitInvariance, PTL

\* A version is in use only after the store committed it (refresh_schema saves
\* before it installs).
THEOREM VersionsAreDurable == KitSpec => []HeldVersionWasSaved
<1>1. KitInv => HeldVersionWasSaved
    BY DEF KitInv
<1>2. QED
    BY <1>1, KitInvariance, PTL
=============================================================================
