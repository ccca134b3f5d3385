--------------------------- MODULE RegisterProofs ---------------------------
(* Proofs about CustomerRegister, for every value of its constants.        *)
EXTENDS CustomerRegister, FiniteSetTheorems, WellFoundedInduction, TLAPS

Work == [pc : (Tables \ {"oldHours"}) \cup {"idle", "writing"}, got : Register,
         failed : SUBSET Tables, todo : SUBSET Customers, seen : SUBSET Customers,
         before : [Customers -> Row]]
Outcome == [known : BOOLEAN, got : Register, failed : SUBSET Tables]

-----------------------------------------------------------------------------
(* The invariant: what a run has written, and what the last good one left, *)
(* is what was read; a run that has written nothing yet found the          *)
(* customers as they are.                                                  *)

AsRead(got, c) ==
  /\ rows[c].here
  /\ rows[c].name = got.names[c]
  /\ rows[c].domains = got.domains[c]
  /\ rows[c].aliases = got.aliases[c]
  /\ got.hours[c] => rows[c].hours
  /\ got.settings[c] # NoSetting => /\ rows[c].active = got.settings[c].active
                                    /\ rows[c].code = got.settings[c].code

ResultSound ==
  result.known /\ run.pc # "writing" =>
      \A c \in Universe(result.got) : AsRead(result.got, c)

RunSound ==
  /\ run.pc = "writing" => /\ run.seen \cup run.todo = Universe(run.got)
                           /\ \A c \in run.seen : AsRead(run.got, c)
  /\ run.pc # "writing" => run.seen = {}
  /\ run.pc # "idle" /\ run.seen = {} => rows = run.before

RegisterInv == TypeOK /\ ResultSound /\ RunSound

-----------------------------------------------------------------------------
(* Types of what the actions make.                                         *)

LEMMA EmptyTypes ==
  /\ Blank \in Register /\ NoRow \in Row /\ Unknown \in Entry
  /\ Idle \in Work /\ NoResult \in Outcome /\ NoHours \in Hours
BY DEF Blank, Register, NoRow, Row, Unknown, Entry, Idle, Work, NoResult, Outcome, NoHours,
       Hours, Tables

LEMMA NoHoursType == NoHours \in Hours
BY EmptyTypes

LEMMA Least ==
  ASSUME NEW T \in SUBSET Nat, T # {}
  PROVE  \E x \in T : \A y \in T : x <= y
<1> DEFINE R == {ss \in Nat \X Nat : ss[1] < ss[2]}
<1>1. IsWellFoundedOn(R, Nat)
  BY NatLessThanWellFounded DEF OpToRel
<1>2. PICK x \in T : \A y \in T : ~(<<y, x>> \in R)
  <2> HIDE DEF R
  <2> QED BY <1>1, WFMin
<1>3. \A y \in T : ~(y < x)
  BY <1>2
<1> QED BY <1>3

LEMMA Greatest ==
  ASSUME NEW n \in Nat, NEW T \in SUBSET (1..n), T # {}
  PROVE  \E x \in T : \A y \in T : y <= x
<1> DEFINE D == {n - x : x \in T}
<1>1. D \in SUBSET Nat /\ D # {}
  <2>1. \A x \in T : x \in Int /\ x <= n
    OBVIOUS
  <2>2. \A x \in T : n - x \in Nat
    BY <2>1
  <2> QED BY <2>2
<1>2. PICK d \in D : \A e \in D : d <= e
  <2> HIDE DEF D
  <2> QED BY <1>1, Least
<1>3. PICK x \in T : d = n - x
  OBVIOUS
<1>4. \A y \in T : n - x <= n - y
  BY <1>2, <1>3
<1> QED BY <1>4

(* The hours of a code are those of the last of its profiles.              *)
LEMMA HoursOfType ==
  ASSUME NEW n \in Nat, NEW f \in [1..n -> ProfileRow], NEW code
  PROVE  HoursOf(f, code) \in Hours
<1> DEFINE N == Named(f, code)
<1>1. CASE code = NoCode \/ N = {}
  BY <1>1, NoHoursType DEF HoursOf
<1>2. CASE ~(code = NoCode \/ N = {})
  <2> DEFINE last == CHOOSE p \in N : \A q \in N : q <= p
  <2>1. N \in SUBSET (1..n)
    BY DEF Named
  <2>2. last \in N
    <3>1. \E p \in N : \A q \in N : q <= p
      <4> HIDE DEF N
      <4> QED BY <1>2, <2>1, Greatest
    <3> QED BY <3>1
  <2>3. f[last] \in ProfileRow
    BY <2>1, <2>2
  <2>4. HoursOf(f, code) = [schedule |-> f[last].schedule, holidays |-> f[last].holidays]
    BY <1>2 DEF HoursOf
  <2> HIDE DEF last
  <2> QED BY <2>3, <2>4 DEF ProfileRow, Schedule, Hours
<1> QED BY <1>1, <1>2

LEMMA EntitledType ==
  ASSUME NEW n \in Nat, NEW f \in [1..n -> ProfileRow], NEW row \in Row
  PROVE  Entitled(f, row) \in Entry
<1>1. PICK h \in Hours : h = HoursOf(f, row.code)
  BY HoursOfType
<1>2. OpenHours(f, row.code, row.hours) \in Hours
  BY <1>1, RegisterAssumption DEF OpenHours, Hours
<1> HIDE DEF Entry
<1>3. OpenHours(f, row.code, row.hours) \in Hours /\ row.active \in BOOLEAN
      /\ row.domains \in BOOLEAN /\ row.aliases \in BOOLEAN
  BY <1>2 DEF Row
<1> QED BY <1>3 DEF Entitled, Entry

(* What a question makes of the record read so far.                        *)
LEMMA AskedType ==
  ASSUME TypeOK, NEW kept \in SUBSET Customers, run.pc \in Tables
  PROVE  Asked(run.pc, kept) \in Register
<1>1. run.got \in Register /\ register \in Register /\ HoursTable \in [Customers -> BOOLEAN]
  BY DEF TypeOK, HoursTable, Register
<1>2. /\ Names(kept) \in Register /\ SettingsRows(kept) \in Register
      /\ Domains(kept) \in Register /\ Aliases(kept) \in Register
      /\ ServiceRows(kept) \in Register
  BY <1>1 DEF Names, SettingsRows, Domains, Aliases, ServiceRows, Only, Register
<1>3. run.pc \in {"names", "settings", "domains", "aliases", "hours"}
  BY DEF TypeOK, Tables
<1> QED BY <1>2, <1>3 DEF Asked

LEMMA FetchedType ==
  ASSUME TypeOK
  PROVE  Fetched \in Register
BY DEF TypeOK, HoursTable, Register, Fetched

LEMMA UniverseType ==
  ASSUME NEW got
  PROVE  Universe(got) \in SUBSET Customers
BY DEF Universe

LEMMA UpsertedType ==
  ASSUME NEW row \in Row, NEW got \in Register, NEW c \in Customers
  PROVE  Upserted(row, got, c) \in Row
<1>1. /\ got.names[c] \in BOOLEAN /\ got.domains[c] \in BOOLEAN /\ got.aliases[c] \in BOOLEAN
      /\ got.hours[c] \in BOOLEAN /\ got.settings[c] \in Settings \cup {NoSetting}
  BY DEF Register
<1>2. CodeSaid(got, c) \in Codes \cup {NoCode} /\ Contract(got, c) \in BOOLEAN
  BY <1>1, RegistersAssumption DEF CodeSaid, Contract
<1>3. row.active \in BOOLEAN /\ row.hours \in BOOLEAN
  BY DEF Row
<1> QED BY <1>1, <1>2, <1>3 DEF Upserted, Row

LEMMA HandledType ==
  ASSUME NEW row \in Row
  PROVE  Handled(row) \in Row
BY EmptyTypes DEF Handled, Row

-----------------------------------------------------------------------------
(* Every step keeps the types.                                             *)

LEMMA InitInv == Init => RegisterInv
<1> SUFFICES ASSUME Init PROVE RegisterInv
  OBVIOUS
<1>1. TypeOK
  BY EmptyTypes, RegisterAssumption, RegistersAssumption, ProfilesAssumption
     DEF Init, TypeOK, Work, Outcome
<1>2. ResultSound /\ RunSound
  BY DEF Init, ResultSound, RunSound, Idle, NoResult
<1> QED BY <1>1, <1>2 DEF RegisterInv

(* Steps that leave the customers, the run and its result alone.           *)
LEMMA Untouched ==
  ASSUME RegisterInv, UNCHANGED <<source, rows, run, result>>, TypeOK'
  PROVE  RegisterInv'
BY DEF RegisterInv, ResultSound, RunSound, AsRead, Universe, Excluded, source

LEMMA EditsType ==
  ASSUME TypeOK, Edit
  PROVE  edits' \in 0..MaxEdits
BY RegisterAssumption DEF TypeOK, Edit

LEMMA FaultsType ==
  ASSUME TypeOK, Fault
  PROVE  faults' \in 0..MaxFaults
BY RegisterAssumption DEF TypeOK, Fault

LEMMA EditRegisterInv ==
  ASSUME RegisterInv, EditRegister
  PROVE  RegisterInv'
<1>1. TypeOK
  BY DEF RegisterInv
<1>2. register' \in Register
  <2>1. PICK c \in Customers :
        \/ register' = [register EXCEPT !.names[c] = ~@]
        \/ \E s \in Settings \cup {NoSetting} : register' = [register EXCEPT !.settings[c] = s]
        \/ register' = [register EXCEPT !.domains[c] = ~@]
        \/ register' = [register EXCEPT !.aliases[c] = ~@]
        \/ register' = [register EXCEPT !.hours[c] = ~@]
        \/ register' = [register EXCEPT !.oldHours[c] = ~@]
    BY DEF EditRegister
  <2>2. register \in Register
    BY <1>1 DEF TypeOK
  <2>3. CASE register' = [register EXCEPT !.names[c] = ~@]
    BY <2>2, <2>3 DEF Register
  <2>4. ASSUME NEW s \in Settings \cup {NoSetting}, register' = [register EXCEPT !.settings[c] = s]
        PROVE  register' \in Register
    BY <2>2, <2>4 DEF Register
  <2>5. CASE register' = [register EXCEPT !.domains[c] = ~@]
    BY <2>2, <2>5 DEF Register
  <2>6. CASE register' = [register EXCEPT !.aliases[c] = ~@]
    BY <2>2, <2>6 DEF Register
  <2>7. CASE register' = [register EXCEPT !.hours[c] = ~@]
    BY <2>2, <2>7 DEF Register
  <2>8. CASE register' = [register EXCEPT !.oldHours[c] = ~@]
    BY <2>2, <2>8 DEF Register
  <2> QED BY <2>1, <2>3, <2>4, <2>5, <2>6, <2>7, <2>8
<1>3. TypeOK'
  BY <1>1, <1>2, EditsType DEF EditRegister, TypeOK, source
<1> QED BY <1>3, Untouched DEF EditRegister

LEMMA SaveProfileInv ==
  ASSUME RegisterInv, NEW code \in Codes \cup {NoCode}, NEW builtin \in BOOLEAN,
         SaveProfile(code, builtin)
  PROVE  RegisterInv'
<1>1. TypeOK
  BY DEF RegisterInv
<1>2. PICK n \in 0..MaxProfiles : profiles \in [1..n -> ProfileRow]
  BY <1>1 DEF TypeOK
<1>3. PICK schedule \in Schedules, auto \in BOOLEAN, enabled \in BOOLEAN :
        LET saved == Profile(code, schedule, builtin, auto, enabled)
            next == Cardinality(DOMAIN profiles) + 1 IN
        IF WithCode(code) # {}
        THEN profiles' = [p \in DOMAIN profiles |->
                            IF p \in WithCode(code) THEN saved ELSE profiles[p]]
        ELSE /\ next <= MaxProfiles
             /\ profiles' = [p \in DOMAIN profiles \cup {next} |->
                                IF p = next THEN saved ELSE profiles[p]]
  BY DEF SaveProfile
<1> DEFINE saved == Profile(code, schedule, builtin, auto, enabled)
<1>4. saved \in ProfileRow
  BY ProfilesAssumption DEF Profile, ProfileRow
<1>5. DOMAIN profiles = 1..n /\ n \in Nat /\ Cardinality(1..n) = n
  BY <1>2, RegisterAssumption, FS_Interval
<1> HIDE DEF saved
<1>6. \E m \in 0..MaxProfiles : profiles' \in [1..m -> ProfileRow]
  <2>1. CASE WithCode(code) # {}
    <3>1. profiles' = [p \in 1..n |-> IF p \in WithCode(code) THEN saved ELSE profiles[p]]
      BY <2>1, <1>3, <1>5 DEF saved
    <3> QED BY <3>1, <1>2, <1>4
  <2>2. CASE WithCode(code) = {}
    <3>1. n + 1 <= MaxProfiles
          /\ profiles' = [p \in (1..n) \cup {n + 1} |-> IF p = n + 1 THEN saved ELSE profiles[p]]
      BY <2>2, <1>3, <1>5 DEF saved
    <3>2. (1..n) \cup {n + 1} = 1..(n + 1)
      BY <1>5
    <3>3. profiles' \in [1..(n + 1) -> ProfileRow]
      BY <3>1, <3>2, <1>2, <1>4, <1>5
    <3>4. n + 1 \in 0..MaxProfiles
      BY <3>1, <1>5, RegisterAssumption
    <3> QED BY <3>3, <3>4
  <2> QED BY <2>1, <2>2
<1>7. TypeOK'
  BY <1>1, <1>6, EditsType DEF SaveProfile, TypeOK, source
<1> QED BY <1>7, Untouched DEF SaveProfile

LEMMA DeleteProfileInv ==
  ASSUME RegisterInv, NEW p \in DOMAIN profiles, DeleteProfile(p)
  PROVE  RegisterInv'
<1>1. TypeOK
  BY DEF RegisterInv
<1>2. PICK n \in 0..MaxProfiles : profiles \in [1..n -> ProfileRow]
  BY <1>1 DEF TypeOK
<1>3. profiles' \in [1..n -> ProfileRow]
  BY <1>2 DEF DeleteProfile, ProfileRow
<1>4. TypeOK'
  BY <1>1, <1>2, <1>3, EditsType DEF DeleteProfile, TypeOK, source
<1> QED BY <1>4, Untouched DEF DeleteProfile

LEMMA RefreshHolidaysInv ==
  ASSUME RegisterInv, RefreshHolidays
  PROVE  RegisterInv'
<1>1. TypeOK
  BY DEF RegisterInv
<1>2. PICK n \in 0..MaxProfiles : profiles \in [1..n -> ProfileRow]
  BY <1>1 DEF TypeOK
<1>3. PICK some \in SUBSET Dates :
        profiles' = [p \in DOMAIN profiles |->
            IF profiles[p].auto THEN [profiles[p] EXCEPT !.holidays = some] ELSE profiles[p]]
  BY DEF RefreshHolidays
<1>4. \A p \in 1..n : [profiles[p] EXCEPT !.holidays = some] \in ProfileRow
  BY <1>2 DEF ProfileRow
<1>5. profiles' \in [1..n -> ProfileRow]
  BY <1>2, <1>3, <1>4
<1>6. TypeOK'
  BY <1>1, <1>2, <1>5, EditsType DEF RefreshHolidays, TypeOK, source
<1> QED BY <1>6, Untouched DEF RefreshHolidays

LEMMA SyncListenerInv ==
  ASSUME RegisterInv, SyncListener
  PROVE  RegisterInv'
<1>1. TypeOK
  BY DEF RegisterInv
<1>2. PICK n \in 0..MaxProfiles : profiles \in [1..n -> ProfileRow]
  BY <1>1 DEF TypeOK
<1>3. \A c \in Customers : Served(c) \in Entry
  BY <1>1, <1>2, EntitledType, RegisterAssumption DEF Served, TypeOK
<1>4. cache' \in [Customers -> Entry]
  BY <1>3, EmptyTypes DEF SyncListener
<1>5. TypeOK'
  BY <1>1, <1>4 DEF SyncListener, TypeOK, source
<1> QED BY <1>5, Untouched DEF SyncListener

-----------------------------------------------------------------------------
(* The run.                                                                *)

(* What was read stays as it is in the table while nobody writes it.       *)
LEMMA UniverseStays ==
  ASSUME UNCHANGED source, NEW got
  PROVE  Universe(got)' = Universe(got)
BY DEF source, Universe, Excluded

LEMMA RunUniverseStays ==
  ASSUME UNCHANGED source, run'.got = run.got
  PROVE  Universe(run.got)' = Universe(run.got)
BY DEF source, Universe, Excluded

LEMMA OpenInv ==
  ASSUME RegisterInv, Open
  PROVE  RegisterInv'
<1>1. TypeOK /\ ResultSound
  BY DEF RegisterInv
<1>2. rows \in [Customers -> Row] /\ Fetched \in Register /\ Universe(Fetched) \in SUBSET Customers
  BY <1>1, FetchedType, UniverseType DEF TypeOK
<1>3. /\ run.pc = "idle"
      /\ \/ run' = [Idle EXCEPT !.pc = "names", !.before = rows]
         \/ run' = [Idle EXCEPT !.pc = "writing", !.got = Fetched, !.before = rows,
                                !.todo = Universe(Fetched)]
  BY DEF Open
<1>4. run' \in Work
  BY <1>2, <1>3, EmptyTypes DEF Work, Tables
<1>5. TypeOK'
  BY <1>1, <1>4 DEF Open, TypeOK, Work, source
<1>6. ResultSound'
  <2>1. UNCHANGED <<source, rows, result>>
    BY DEF Open
  <2> QED BY <1>1, <1>3, <2>1 DEF ResultSound, AsRead, Universe, Excluded, source
<1>7. RunSound'
  <2>1. UNCHANGED <<source, rows>>
    BY DEF Open
  <2>2. run'.seen = {} /\ run'.before = rows
        /\ (run'.pc = "writing" => run'.todo = Universe(run'.got))
    BY <1>3 DEF Idle
  <2> QED BY <2>1, <2>2, UniverseStays DEF RunSound
<1> QED BY <1>5, <1>6, <1>7 DEF RegisterInv

(* A question and its answer, good or not.                                 *)
LEMMA ReadInv ==
  ASSUME RegisterInv, run.pc \in Tables, NEW kept \in SUBSET Customers,
         NEW failed \in SUBSET Tables, Read(Asked(run.pc, kept), failed),
         UNCHANGED <<source, register, profiles, rows, cache, result, edits>>,
         faults' \in 0..MaxFaults
  PROVE  RegisterInv'
<1>1. TypeOK /\ ResultSound /\ RunSound
  BY DEF RegisterInv
<1>2. PICK got \in Register : got = Asked(run.pc, kept)
  BY <1>1, AskedType
<1>3. PICK todo \in SUBSET Customers : todo = IF run.pc = "hours" THEN Universe(got) ELSE {}
  BY UniverseType
<1>4. After(run.pc) \in (Tables \ {"oldHours"}) \cup {"idle", "writing"}
      /\ (After(run.pc) = "writing" => run.pc = "hours") /\ After(run.pc) # "idle"
  <2>1. run.pc \in {"names", "settings", "domains", "aliases", "hours"}
    BY <1>1 DEF TypeOK, Tables
  <2> QED BY <2>1 DEF After, Tables
<1>5. run' = [run EXCEPT !.pc = After(run.pc), !.got = got, !.failed = failed, !.todo = todo]
  BY <1>2, <1>3 DEF Read
<1>6. run \in Work
  BY <1>1 DEF TypeOK, Work
<1>7. /\ run' \in Work
      /\ run'.pc = After(run.pc) /\ run'.got = got /\ run'.todo = todo
      /\ run'.seen = run.seen /\ run'.before = run.before
  BY <1>4, <1>5, <1>6 DEF Work
<1>8. TypeOK'
  BY <1>1, <1>7 DEF TypeOK, Work, source
<1>9. ResultSound'
  BY <1>1 DEF ResultSound, AsRead, Universe, Excluded, source, Tables
<1>10. RunSound'
  BY <1>1, <1>3, <1>4, <1>7, UniverseStays DEF RunSound, Tables, source
<1> QED BY <1>8, <1>9, <1>10 DEF RegisterInv

LEMMA AskInv ==
  ASSUME RegisterInv, Ask \/ AskFails
  PROVE  RegisterInv'
<1>1. TypeOK
  BY DEF RegisterInv
<1>2. CASE Ask
  BY <1>1, <1>2, ReadInv DEF Ask, TypeOK
<1>3. CASE AskFails
  <2>1. run.failed \cup {run.pc} \in SUBSET Tables /\ faults' \in 0..MaxFaults
    BY <1>1, <1>3, FaultsType DEF AskFails, TypeOK
  <2> QED BY <1>3, <2>1, ReadInv DEF AskFails
<1> QED BY <1>2, <1>3

LEMMA UpsertInv ==
  ASSUME RegisterInv, NEW c \in Customers, Upsert(c)
  PROVE  RegisterInv'
<1>1. TypeOK /\ ResultSound /\ RunSound
  BY DEF RegisterInv
<1>2. run \in Work /\ rows \in [Customers -> Row] /\ run.got \in Register
  BY <1>1 DEF TypeOK, Work
<1>3. PICK row \in Row : row = Upserted(rows[c], run.got, c)
  BY <1>2, UpsertedType
<1>4. rows' = [rows EXCEPT ![c] = row] /\ c \in run.todo /\ run.pc = "writing"
  BY <1>3 DEF Upsert
<1>5. /\ run' \in Work
      /\ run'.pc = "writing" /\ run'.got = run.got /\ run'.todo = run.todo \ {c}
      /\ run'.seen = run.seen \cup {c}
  BY <1>2, <1>4 DEF Upsert, Work
<1>6. UNCHANGED source
  BY DEF Upsert
<1>7. TypeOK'
  BY <1>1, <1>2, <1>4, <1>5 DEF Upsert, TypeOK, Work, source
<1>8. AsRead(run.got, c)'
  <2>1. rows'[c] = row
    BY <1>2, <1>4
  <2>2. run.got.settings[c] # NoSetting =>
            /\ row.active = run.got.settings[c].active
            /\ row.code = run.got.settings[c].code
    BY <1>3 DEF Upserted, Silent, Contract, CodeSaid
  <2>3. /\ row.here = TRUE /\ row.name = run.got.names[c]
        /\ row.domains = run.got.domains[c] /\ row.aliases = run.got.aliases[c]
        /\ row.hours = (rows[c].hours \/ run.got.hours[c])
    BY <1>3 DEF Upserted
  <2>4. run.got.hours[c] \in BOOLEAN /\ rows[c].hours \in BOOLEAN
    BY <1>2 DEF Register, Row
  <2>5. run.got.hours[c] => row.hours
    BY <2>3, <2>4
  <2>6. rows'[c] = row /\ run'.got = run.got
    BY <1>5, <2>1
  <2> QED BY <2>2, <2>3, <2>5, <2>6 DEF AsRead
<1>9. \A d \in run.seen : AsRead(run.got, d)'
  <2> SUFFICES ASSUME NEW d \in run.seen PROVE AsRead(run.got, d)'
    OBVIOUS
  <2>1. CASE d = c
    BY <2>1, <1>8
  <2>2. CASE d # c
    <3>1. rows'[d] = rows[d]
      BY <1>2, <1>4, <2>2
    <3>2. AsRead(run.got, d)
      BY <1>1, <1>4 DEF RunSound
    <3> QED BY <3>1, <3>2, <1>5 DEF AsRead
  <2> QED BY <2>1, <2>2
<1>10. run'.seen \cup run'.todo = Universe(run.got)'
  <2>1. run.seen \cup run.todo = Universe(run.got)
    BY <1>1, <1>4 DEF RunSound
  <2>2. run'.seen \cup run'.todo = run.seen \cup run.todo
    BY <1>4, <1>5
  <2> QED BY <1>5, <1>6, <2>1, <2>2, RunUniverseStays
<1>11. RunSound'
  <2>1. \A d \in run'.seen : AsRead(run.got, d)'
    BY <1>5, <1>8, <1>9
  <2>2. c \in run'.seen
    BY <1>5
  <2> QED BY <1>5, <1>10, <2>1, <2>2 DEF RunSound
<1>12. ResultSound'
  BY <1>5 DEF ResultSound
<1> QED BY <1>7, <1>11, <1>12 DEF RegisterInv

LEMMA FinishInv ==
  ASSUME RegisterInv, Finish
  PROVE  RegisterInv'
<1>1. TypeOK /\ RunSound
  BY DEF RegisterInv
<1>2. run \in Work /\ rows \in [Customers -> Row] /\ run.got \in Register
  BY <1>1 DEF TypeOK, Work
<1>3. run.seen = Universe(run.got) /\ \A c \in run.seen : AsRead(run.got, c)
  BY <1>1 DEF RunSound, Finish
<1>4. rows' \in [Customers -> Row]
  BY <1>2, HandledType DEF Finish
<1>5. result' \in Outcome /\ result'.got = run.got /\ run' = Idle /\ UNCHANGED source
  BY <1>2 DEF Finish, Outcome, Work
<1>6. TypeOK'
  BY <1>1, <1>4, <1>5, EmptyTypes DEF Finish, TypeOK, Work, Outcome, source
<1>7. \A c \in run.seen : rows'[c] = rows[c]
  <2>1. run.seen \cap Missing(run.seen) = {}
    BY DEF Missing
  <2>2. run.seen \subseteq Customers
    BY <1>2 DEF Work
  <2> QED BY <2>1, <2>2 DEF Finish
<1>8. ResultSound'
  BY <1>3, <1>5, <1>7, UniverseStays DEF ResultSound, AsRead
<1>9. RunSound'
  BY <1>5 DEF RunSound, Idle
<1> QED BY <1>6, <1>8, <1>9 DEF RegisterInv

LEMMA BreaksOffInv ==
  ASSUME RegisterInv, BreaksOff
  PROVE  RegisterInv'
<1>1. TypeOK
  BY DEF RegisterInv
<1>2. TypeOK'
  BY <1>1, EmptyTypes, FaultsType DEF BreaksOff, TypeOK, Work, Outcome, source
<1>3. ResultSound' /\ RunSound'
  BY DEF BreaksOff, ResultSound, RunSound, Idle, NoResult
<1> QED BY <1>2, <1>3 DEF RegisterInv

-----------------------------------------------------------------------------
(* The theorems.                                                           *)

LEMMA NextInv ==
  ASSUME RegisterInv, Next
  PROVE  RegisterInv'
<1>1. CASE EditRegister
  BY <1>1, EditRegisterInv
<1>2. ASSUME NEW code \in Codes, NewProfile(code) PROVE RegisterInv'
  BY <1>2, SaveProfileInv DEF NewProfile
<1>3. ASSUME NEW p \in DOMAIN profiles, EditProfile(p) PROVE RegisterInv'
  <2>1. profiles[p].code \in Codes \cup {NoCode} /\ profiles[p].builtin \in BOOLEAN
    BY DEF RegisterInv, TypeOK, ProfileRow
  <2> QED BY <1>3, <2>1, SaveProfileInv DEF EditProfile
<1>4. ASSUME NEW p \in DOMAIN profiles, DeleteProfile(p) PROVE RegisterInv'
  BY <1>4, DeleteProfileInv
<1>5. CASE RefreshHolidays
  BY <1>5, RefreshHolidaysInv
<1>6. CASE Open
  BY <1>6, OpenInv
<1>7. CASE Ask \/ AskFails
  BY <1>7, AskInv
<1>8. ASSUME NEW c \in Customers, Upsert(c) PROVE RegisterInv'
  BY <1>8, UpsertInv
<1>9. CASE Finish
  BY <1>9, FinishInv
<1>10. CASE BreaksOff
  BY <1>10, BreaksOffInv
<1>11. CASE SyncListener
  BY <1>11, SyncListenerInv
<1> QED BY <1>1, <1>2, <1>3, <1>4, <1>5, <1>6, <1>7, <1>8, <1>9, <1>10, <1>11 DEF Next, Step

LEMMA StepInv ==
  ASSUME RegisterInv, [Next]_vars
  PROVE  RegisterInv'
<1>1. CASE UNCHANGED vars
  <2>1. TypeOK'
    BY <1>1 DEF RegisterInv, TypeOK, vars, source
  <2> QED BY <1>1, <2>1, Untouched DEF vars
<1> QED BY <1>1, NextInv

LEMMA Invariance == Spec => []RegisterInv
<1> QED BY InitInv, StepInv, PTL DEF Spec

(* Every variable has its type: the profiles that operators save, delete   *)
(* and refresh, and with them the hours that are served and cached.        *)
THEOREM RegisterTypeCorrect == Spec => []TypeOK
<1>1. RegisterInv => TypeOK
  BY DEF RegisterInv
<1> QED BY <1>1, Invariance, PTL

(* A failed question spoils its own column and no other: whatever table of *)
(* the register did not answer, whoever was read has what was read.        *)
THEOREM FieldsCorrect == Spec => []FieldsExact
<1>1. RegisterInv => FieldsExact
  BY DEF RegisterInv, ResultSound, FieldsExact, AsRead, Tables
<1> QED BY <1>1, Invariance, PTL

(* A run that read nobody leaves the customers as it found them, however   *)
(* it ends.                                                                *)
THEOREM SnapshotKept == Spec => OutageKeepsSnapshot
<1> DEFINE Kept == run.pc # "idle" /\ run'.pc = "idle" /\ Universe(run.got) = {}
                       => rows' = run.before
<1>1. ASSUME RegisterInv, [Next]_vars PROVE [Kept]_vars
  <2> SUFFICES ASSUME Next, run.pc # "idle", run'.pc = "idle", Universe(run.got) = {}
               PROVE  rows' = run.before
    BY <1>1
  <2>1. TypeOK /\ RunSound
    BY <1>1 DEF RegisterInv
  <2>2. run.seen = {}
    BY <2>1 DEF RunSound
  <2>3. rows = run.before
    BY <2>1, <2>2 DEF RunSound
  <2>4. CASE UNCHANGED rows
    BY <2>3, <2>4
  <2>5. CASE Finish
    <3>1. Missing(run.seen) = {}
      BY <2>2 DEF Missing
    <3>2. rows' = rows
      BY <2>1, <2>5, <3>1 DEF Finish, TypeOK
    <3> QED BY <2>3, <3>2
  <2>6. CASE \E c \in Customers : Upsert(c)
    BY <2>1, <2>2, <2>6 DEF RunSound, Upsert
  <2> QED BY <2>4, <2>5, <2>6 DEF Next, Step, EditRegister, NewProfile, EditProfile, SaveProfile,
        DeleteProfile, RefreshHolidays, Open, Ask, AskFails, BreaksOff, SyncListener
<1> QED BY <1>1, Invariance, PTL DEF Spec, OutageKeepsSnapshot
=============================================================================
