-------------------------- MODULE CustomerRegister --------------------------
(***************************************************************************)
(* Where the customers of the relay come from: the register outside, which *)
(* a run of SyncEngine reads through its provider and maps into the table  *)
(* customers; the profiles of service hours; what the admin serves of both *)
(* and the listener caches.                                                *)
(*                                                                         *)
(* The provider of the register in use (kind "legacy") asks five questions *)
(* on five connections, each of which may fail by itself and then counts   *)
(* as an empty answer.  The others ask one: a query or a file read row by  *)
(* row, or a document read whole; their records go through the mapping     *)
(* that the editor of mappings recommends.  Runs do not overlap            *)
(* (CustomerSync).                                                         *)
(***************************************************************************)
EXTENDS ServiceHours

CONSTANTS
    Customers,   \* codcli
    Codes,       \* codes of profiles
    Kinds,       \* providers: "legacy", "postgres", "mssql", "csv_file", "json_url"
    Policies,    \* on_missing
    Registers,   \* what the register may hold first
    Settings,    \* what a row of customer_settings may say
    NoSetting,   \* no row
    OwnHolidays, \* the holidays that a row of hours gives
    BuiltIn,     \* the profiles of migration 003
    Schedules,   \* what an operator may give a profile
    MaxProfiles, \* rows of service_hours_profiles (bound)
    MaxEdits,    \* edits of the register and of the profiles (bound)
    MaxFaults    \* failed reads and runs that break off (bound)

ASSUME RegisterAssumption ==
    /\ IsFiniteSet(Customers)
    /\ Kinds \subseteq {"legacy", "postgres", "mssql", "csv_file", "json_url"}
    /\ Policies \subseteq {"flag", "delete", "keep"}
    /\ NoSetting \notin Settings
    /\ OwnHolidays \subseteq Dates
    /\ MaxProfiles \in Nat /\ MaxEdits \in Nat /\ MaxFaults \in Nat

(* The rows of service_hours_profiles.                                     *)
Schedule == [0..(Week - 1) -> SUBSET Windows]
ProfileRow == [code : Codes \cup {NoCode}, schedule : Schedule, holidays : SUBSET Dates,
               builtin : BOOLEAN, auto : BOOLEAN, enabled : BOOLEAN]

ASSUME ProfilesAssumption ==
    /\ Schedules \subseteq Schedule
    /\ \E n \in 0..MaxProfiles : BuiltIn \in [1..n -> ProfileRow]

VARIABLES
    kind, policy, \* customer_sync_sources
    register,     \* the tables outside
    profiles,     \* service_hours_profiles, in the order of id
    rows,         \* customers
    cache,        \* customers_cache of the listener
    run,          \* the run of SyncEngine
    result,       \* history: what the last run wrote, if it was ok
    edits, faults

source == <<kind, policy>>
vars == <<source, register, profiles, rows, cache, run, result, edits, faults>>

(* Tables of the register: the names, the settings, and whether there are  *)
(* domains, aliases, and hours in either of two tables.                    *)
Tables == {"names", "settings", "domains", "aliases", "hours", "oldHours"}
Register == [names : [Customers -> BOOLEAN],
             settings : [Customers -> Settings \cup {NoSetting}],
             domains : [Customers -> BOOLEAN], aliases : [Customers -> BOOLEAN],
             hours : [Customers -> BOOLEAN], oldHours : [Customers -> BOOLEAN]]
Blank == [names |-> [c \in Customers |-> FALSE],
          settings |-> [c \in Customers |-> NoSetting],
          domains |-> [c \in Customers |-> FALSE], aliases |-> [c \in Customers |-> FALSE],
          hours |-> [c \in Customers |-> FALSE], oldHours |-> [c \in Customers |-> FALSE]]

ASSUME RegistersAssumption ==
    /\ Registers \subseteq Register
    /\ Settings \subseteq [active : BOOLEAN, excluded : BOOLEAN, code : Codes]

NoRow == [here |-> FALSE, name |-> FALSE, active |-> FALSE, code |-> NoCode,
          domains |-> FALSE, aliases |-> FALSE, hours |-> FALSE]
Unknown == [known |-> FALSE, active |-> FALSE, domains |-> FALSE, aliases |-> FALSE,
            hours |-> NoHours]
Idle == [pc |-> "idle", got |-> Blank, failed |-> {}, todo |-> {}, seen |-> {},
         before |-> [c \in Customers |-> NoRow]]
NoResult == [known |-> FALSE, got |-> Blank, failed |-> {}]

Init ==
    /\ kind \in Kinds /\ policy \in Policies
    /\ register \in Registers
    /\ profiles = BuiltIn
    /\ rows = [c \in Customers |-> NoRow]
    /\ cache = [c \in Customers |-> Unknown]
    /\ run = Idle
    /\ result = NoResult
    /\ edits = 0 /\ faults = 0

Edit == edits < MaxEdits /\ edits' = edits + 1
Fault == faults < MaxFaults /\ faults' = faults + 1

-----------------------------------------------------------------------------
(* The register and the pages of the profiles.                             *)

EditRegister ==
    /\ Edit
    /\ \E c \in Customers :
        \/ register' = [register EXCEPT !.names[c] = ~@]
        \/ \E s \in Settings \cup {NoSetting} :
                register' = [register EXCEPT !.settings[c] = s]
        \/ register' = [register EXCEPT !.domains[c] = ~@]
        \/ register' = [register EXCEPT !.aliases[c] = ~@]
        \/ register' = [register EXCEPT !.hours[c] = ~@]
        \/ register' = [register EXCEPT !.oldHours[c] = ~@]
    /\ UNCHANGED <<source, profiles, rows, cache, run, result, faults>>

(* A profile as the form of the one tenant saves it; its name is taken to  *)
(* be its code.                                                            *)
Profile(code, schedule, builtin, auto, enabled) ==
    [code |-> code, schedule |-> schedule, holidays |-> {}, builtin |-> builtin,
     auto |-> auto, enabled |-> enabled]

(* upsert_profile looks for the code and not for the id of the form: a new *)
(* profile with the code of a built-in one replaces it.                    *)
WithCode(code) == {p \in DOMAIN profiles : profiles[p].code = code}

SaveProfile(code, builtin) ==
    /\ Edit
    /\ \E schedule \in Schedules, auto \in BOOLEAN, enabled \in BOOLEAN :
        LET saved == Profile(code, schedule, builtin, auto, enabled)
            next == Cardinality(DOMAIN profiles) + 1 IN
        IF WithCode(code) # {}
        THEN profiles' = [p \in DOMAIN profiles |->
                            IF p \in WithCode(code) THEN saved ELSE profiles[p]]
        ELSE /\ next <= MaxProfiles
             /\ profiles' = [p \in DOMAIN profiles \cup {next} |->
                                IF p = next THEN saved ELSE profiles[p]]
    /\ UNCHANGED <<source, register, rows, cache, run, result, faults>>

NewProfile(code) == SaveProfile(code, FALSE)
EditProfile(p) == SaveProfile(profiles[p].code, profiles[p].builtin)

(* A deleted row stays in the model, without a code. *)
DeleteProfile(p) ==
    /\ Edit
    /\ ~profiles[p].builtin
    /\ profiles' = [profiles EXCEPT ![p].code = NoCode]
    /\ UNCHANGED <<source, register, rows, cache, run, result, faults>>

(* refresh_holidays_italian: the dates of two years, in every profile that *)
(* asks for it.                                                            *)
RefreshHolidays ==
    /\ Edit
    /\ \E some \in SUBSET Dates :
        profiles' = [p \in DOMAIN profiles |->
            IF profiles[p].auto THEN [profiles[p] EXCEPT !.holidays = some] ELSE profiles[p]]
    /\ UNCHANGED <<source, register, rows, cache, run, result, faults>>

-----------------------------------------------------------------------------
(* Reading the register.                                                   *)

Only(table, kept, none) == [c \in Customers |-> IF c \in kept THEN table[c] ELSE none]

(* smtp_relay_service_hours, or the older table when it has nobody.        *)
HoursTable ==
    IF \E c \in Customers : register.hours[c] THEN register.hours ELSE register.oldHours

(* The questions of the legacy provider, answered for the customers kept.  *)
Names(kept) == [run.got EXCEPT !.names = Only(register.names, kept, FALSE)]
SettingsRows(kept) == [run.got EXCEPT !.settings = Only(register.settings, kept, NoSetting)]
Domains(kept) == [run.got EXCEPT !.domains = Only(register.domains, kept, FALSE)]
Aliases(kept) == [run.got EXCEPT !.aliases = Only(register.aliases, kept, FALSE)]
ServiceRows(kept) == [run.got EXCEPT !.hours = Only(HoursTable, kept, FALSE)]

Asked(table, kept) ==
    CASE table = "names" -> Names(kept)
      [] table = "settings" -> SettingsRows(kept)
      [] table = "domains" -> Domains(kept)
      [] table = "aliases" -> Aliases(kept)
      [] table = "hours" -> ServiceRows(kept)

After(table) ==
    CASE table = "names" -> "settings" [] table = "settings" -> "domains"
      [] table = "domains" -> "aliases" [] table = "aliases" -> "hours"
      [] table = "hours" -> "writing"

Excluded(got) ==
    {c \in Customers : got.settings[c] # NoSetting /\ got.settings[c].excluded}

(* _fetch_legacy: everybody with a name or settings, but the excluded; a   *)
(* query over the names.                                                   *)
Universe(got) ==
    IF kind = "legacy"
    THEN {c \in Customers : got.names[c] \/ got.settings[c] # NoSetting} \ Excluded(got)
    ELSE {c \in Customers : got.names[c]}

(* The one question of the other providers: all that the query selects, or *)
(* every row of the file.                                                  *)
Fetched == [register EXCEPT !.hours = HoursTable]

(* insert_customer_sync_run, get_provider and the first question.          *)
Open ==
    /\ run.pc = "idle"
    /\ IF kind = "legacy"
       THEN run' = [Idle EXCEPT !.pc = "names", !.before = rows]
       ELSE run' = [Idle EXCEPT !.pc = "writing", !.got = Fetched, !.before = rows,
                                !.todo = Universe(Fetched)]
    /\ UNCHANGED <<source, register, profiles, rows, cache, result, edits, faults>>

Read(got, failed) ==
    run' = [run EXCEPT !.pc = After(run.pc), !.got = got, !.failed = failed,
                       !.todo = IF run.pc = "hours" THEN Universe(got) ELSE {}]

Ask ==
    /\ run.pc \in Tables
    /\ Read(Asked(run.pc, Customers), run.failed)
    /\ UNCHANGED <<source, register, profiles, rows, cache, result, edits, faults>>

(* A question that fails is logged and answers nobody (its rows are read   *)
(* at once); an outage may last for several of them.                       *)
AskFails ==
    /\ run.pc \in Tables
    /\ Fault \/ (run.failed # {} /\ UNCHANGED faults)
    /\ Read(Asked(run.pc, {}), run.failed \cup {run.pc})
    /\ UNCHANGED <<source, register, profiles, rows, cache, result, edits>>

-----------------------------------------------------------------------------
(* The records and the table.                                              *)

\* Mutant: the default is taken whatever the settings say.
MutContract(got, c) == TRUE

(* _fetch_legacy: who has no settings has a contract.  mapper.apply with   *)
(* the transform bool: a NULL of the left join says nothing, but an empty  *)
(* cell of a file is no contract.                                          *)
Contract(got, c) ==
    IF got.settings[c] # NoSetting THEN got.settings[c].active ELSE kind # "csv_file"
Silent(got, c) == got.settings[c] = NoSetting /\ kind \notin {"legacy", "csv_file"}

CodeSaid(got, c) == IF got.settings[c] = NoSetting THEN NoCode ELSE got.settings[c].code

(* upsert_customer_record: hours that are missing, or say nothing, leave   *)
(* the column alone; lists that are empty do not.                          *)
Upserted(row, got, c) ==
    [here |-> TRUE, name |-> got.names[c], code |-> CodeSaid(got, c),
     domains |-> got.domains[c], aliases |-> got.aliases[c],
     active |-> IF Silent(got, c) /\ row.here THEN row.active ELSE Contract(got, c),
     hours |-> row.hours \/ got.hours[c]]

Upsert(c) ==
    /\ run.pc = "writing" /\ c \in run.todo
    /\ rows' = [rows EXCEPT ![c] = Upserted(@, run.got, c)]
    /\ run' = [run EXCEPT !.todo = @ \ {c}, !.seen = @ \cup {c}]
    /\ UNCHANGED <<source, register, profiles, cache, result, edits, faults>>

Present == {c \in Customers : rows[c].here}

\* Mutant: whoever was not read is missing.
MutMissing(seen) == Present \ seen

(* Nobody is missing from an empty answer, or one of less than half. *)
Missing(seen) ==
    IF seen = {} \/ 2 * Cardinality(seen) < Cardinality(Present) THEN {} ELSE Present \ seen

Handled(row) == IF policy = "delete" THEN NoRow ELSE [row EXCEPT !.active = FALSE]

(* The end of the records, flag_missing_customers or delete_customers, and *)
(* the run is ok.                                                          *)
Finish ==
    /\ run.pc = "writing" /\ run.todo = {}
    /\ rows' = IF policy = "keep" THEN rows
               ELSE [c \in Customers |->
                        IF c \in Missing(run.seen) THEN Handled(rows[c]) ELSE rows[c]]
    /\ result' = [known |-> TRUE, got |-> run.got, failed |-> run.failed]
    /\ run' = Idle
    /\ UNCHANGED <<source, register, profiles, cache, edits, faults>>

(* A query or a file breaks off between two rows, or the process ends: no  *)
(* missing customers, an error.                                            *)
BreaksOff ==
    /\ run.pc # "idle"
    /\ Fault
    /\ run' = Idle
    /\ result' = NoResult
    /\ UNCHANGED <<source, register, profiles, rows, cache, edits>>

-----------------------------------------------------------------------------
(* What is served and cached.                                              *)

(* customers_active: the schedule of the profile, never the row's own, and *)
(* the holidays of both.                                                   *)
OpenHours(known, code, own) ==
    LET hours == HoursOf(known, code) IN
    [hours EXCEPT !.holidays = IF own THEN @ \cup OwnHolidays ELSE @]

Entitled(known, row) ==
    [known |-> TRUE, active |-> row.active, domains |-> row.domains, aliases |-> row.aliases,
     hours |-> OpenHours(known, row.code, row.hours)]

\* Mutant: the profiles are those of the installation.
MutServed(c) == Entitled(BuiltIn, rows[c])

Served(c) == Entitled(profiles, rows[c])

(* The listener's cycle replaces its customers.                            *)
SyncListener ==
    /\ cache' = [c \in Customers |-> IF rows[c].here THEN Served(c) ELSE Unknown]
    /\ UNCHANGED <<source, register, profiles, rows, run, result, edits, faults>>

(* _resolve_customer: a mail that names a domain of the customer.          *)
Context(c, date, now) ==
    [known |-> cache[c].known /\ cache[c].domains,
     active |-> cache[c].known /\ cache[c].active,
     inService |-> cache[c].known /\ IsInService(cache[c].hours, date, now)]

-----------------------------------------------------------------------------
Step == Open \/ Ask \/ (\E c \in Customers : Upsert(c)) \/ Finish

Next ==
    \/ EditRegister
    \/ \E code \in Codes : NewProfile(code)
    \/ \E p \in DOMAIN profiles : profiles[p].code # NoCode /\ (EditProfile(p) \/ DeleteProfile(p))
    \/ RefreshHolidays
    \/ Step \/ AskFails \/ BreaksOff
    \/ SyncListener

(* The scheduler of the imports and the loop of the listener come round.   *)
Fairness == WF_vars(Step) /\ WF_vars(SyncListener)

Spec == Init /\ [][Next]_vars
FairSpec == Spec /\ Fairness

-----------------------------------------------------------------------------
(* Every variable has its type. *)
Row == [here : BOOLEAN, name : BOOLEAN, active : BOOLEAN, code : Codes \cup {NoCode},
        domains : BOOLEAN, aliases : BOOLEAN, hours : BOOLEAN]
Entry == [known : BOOLEAN, active : BOOLEAN, domains : BOOLEAN, aliases : BOOLEAN,
          hours : Hours]

TypeOK ==
    /\ kind \in Kinds /\ policy \in Policies
    /\ register \in Register
    /\ \E n \in 0..MaxProfiles : profiles \in [1..n -> ProfileRow]
    /\ rows \in [Customers -> Row]
    /\ cache \in [Customers -> Entry]
    /\ run \in [pc : (Tables \ {"oldHours"}) \cup {"idle", "writing"}, got : Register,
                failed : SUBSET Tables, todo : SUBSET Customers, seen : SUBSET Customers,
                before : [Customers -> Row]]
    /\ result \in [known : BOOLEAN, got : Register, failed : SUBSET Tables]
    /\ edits \in 0..MaxEdits /\ faults \in 0..MaxFaults

(* After a run that ended ok, each column of the customers it read is what *)
(* its own table of the register said when it was read, whichever of the   *)
(* other questions failed: a failed one spoils its own column and no other.*)
FieldsExact ==
    result.known /\ run.pc \in Tables \cup {"idle"} =>
        LET got == result.got
            ok(table) == table \notin result.failed IN
        \A c \in Universe(got) :
            /\ rows[c].here
            /\ ok("names") => (rows[c].name <=> got.names[c])
            /\ ok("domains") => (rows[c].domains <=> got.domains[c])
            /\ ok("aliases") => (rows[c].aliases <=> got.aliases[c])
            /\ got.hours[c] => rows[c].hours
            /\ ok("settings") /\ got.settings[c] # NoSetting =>
                    /\ rows[c].active <=> got.settings[c].active
                    /\ rows[c].code = got.settings[c].code

(* The register may be out of reach as a whole, or answer nobody: the run  *)
(* then leaves the customers of the last good one as they were, so that    *)
(* the relay goes on with them.                                            *)
OutageKeepsSnapshot ==
    [][run.pc # "idle" /\ run'.pc = "idle" /\ Universe(run.got) = {}
          => rows' = run.before]_vars

(* What the register and the profiles say reaches the listener's judgement *)
(* of a mail: whether it knows the customer by its domain, whether there   *)
(* is a contract, and at every moment whether it is in service; but for    *)
(* the holidays of hours that the register does not give any more.         *)
Judged(c, date, now) ==
    LET said == register.settings[c]
        code == IF said = NoSetting THEN NoCode ELSE said.code
        open == OpenHours(profiles, code, HoursTable[c] \/ rows[c].hours)
    IN [known |-> register.domains[c],
        active |-> IF said # NoSetting THEN said.active ELSE Context(c, date, now).active,
        inService |-> /\ date \notin open.holidays
                      /\ now \in Meant(Parsed(open.schedule[Weekday(date)]))]

Agrees ==
    \A c \in Universe(register), date \in Dates, now \in Minutes :
        Context(c, date, now) = Judged(c, date, now)

RegisterApplies == <>[]Agrees

-----------------------------------------------------------------------------
(* Deviations: what one may expect of the code and it does not do.         *)

(* "anche se PG va giù il relay continua con l'ultimo snapshot": one       *)
(* failed question empties its column, or gives everybody a contract.      *)
FailureKeepsColumns ==
    [][run.pc = "writing" /\ run.todo # {} /\ run'.pc = "writing" =>
        \A c \in run'.seen \ run.seen : rows[c].here =>
            /\ "domains" \in run.failed => rows'[c].domains = rows[c].domains
            /\ "settings" \in run.failed => rows'[c].active = rows[c].active]_vars

(* An excluded customer stays out: not when its settings cannot be read. *)
ExcludedStayOut ==
    kind = "legacy" /\ edits = 0 => \A c \in Excluded(register) : ~rows[c].here

(* "Default 1 se omesso": an empty cell of a file is no contract. *)
SilentIsActive ==
    result.known /\ run.pc = "idle" => \A c \in Universe(result.got) :
        result.got.settings[c] = NoSetting => rows[c].active

(* "24/7": the profile H24 closes for the last minute of every day. *)
AroundTheClock ==
    \A p \in DOMAIN BuiltIn :
        (\A d \in 0..(Week - 1) :
            BuiltIn[p].schedule[d] = {[from |-> 0, to |-> LastMinute]}) =>
        \A date \in Dates, now \in Minutes :
            IsInService([schedule |-> BuiltIn[p].schedule, holidays |-> {}], date, now)

(* "Profili built-in non sono cancellabili": one that a new profile of the *)
(* same code replaced is not built-in any more.                            *)
BuiltInsStay ==
    \A p \in DOMAIN BuiltIn : profiles[p].code = BuiltIn[p].code /\ profiles[p].builtin

(* "I customer-level holidays sovrascrivono quelli del profilo se non      *)
(* vuoti": the customer has those of its profile as well.                  *)
OwnHolidaysReplace ==
    \A c \in Customers : rows[c].here /\ rows[c].hours => Served(c).hours.holidays = OwnHolidays

(* Hours that the register does not give any more are removed. *)
HoursFollow ==
    result.known /\ run.pc = "idle" /\ result.failed = {} =>
        \A c \in Universe(result.got) : rows[c].hours => result.got.hours[c]
=============================================================================
