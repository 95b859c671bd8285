------------------------------ MODULE Settings ------------------------------
(***************************************************************************)
(* The identity, the profile and the preferences of one installation:       *)
(* ChatController's copy of them, the tables StorageManager keeps them in,  *)
(* and what is announced and sent under them.                               *)
(*                                                                          *)
(* Nothing keeps a user from starting the program twice, so several         *)
(* processes may work on the one database of the program's directory.       *)
(* saveState is a transaction of SQLite.  loadState is not: it is a SELECT  *)
(* for each table, and another process may store between two of them.       *)
(*                                                                          *)
(* Three fields stand for the preferences of SettingsTypes.h: option for    *)
(* those that are chosen and shortcut for those that are typed, both read   *)
(* with a default where nothing is stored, and address for the typed texts  *)
(* that have no default.  The fields of the profile the program only        *)
(* displays are left out.                                                   *)
(***************************************************************************)
EXTENDS Integers, Sequences, FiniteSets

CONSTANTS Process,
          NoText,       \* the empty QString
          Name,         \* names users type, host names and role names
          HostName,     \* QHostInfo::localHostName()
          RoleName,     \* the name of the first role, EVA-0
          Signature, Placeholder,
          Option, Default,   \* the texts of preferences, and the default of those with one
          MaxStarts, MaxEdits, MaxFailures, MaxDeaths

ASSUME TextAssumption ==
  /\ HostName \in Name /\ RoleName \in Name /\ NoText \notin Name
  /\ Placeholder \in Signature /\ NoText \notin Signature
  /\ Default \in Option /\ NoText \notin Option
ASSUME BoundAssumption ==
  MaxStarts \in Nat /\ MaxEdits \in Nat /\ MaxFailures \in Nat /\ MaxDeaths \in Nat

VARIABLES phase,     \* how far initialize() has come
          ready,     \* m_storageReady
          memory,    \* m_localId, m_displayName and m_settings
          wireName,  \* m_displayName of the router and the discovery service
          db,
          sent,      \* the message sent in the last step, if it was one
          heard,     \* history: [id, name] announced on the network
          saved,     \* history: the memory that was stored last
          saver,     \* history: the processes whose memory that was
          sources,   \* history: what was stored last when a process began to load, and since
          starts, edits, failures, deaths,
          overlaps   \* history: starts while another process had not stored yet

process == <<phase, ready, memory, wireName>>
history == <<heard, saved, saver, sources, overlaps>>
spent   == <<starts, edits, failures, deaths>>
vars    == <<process, db, sent, history, spent>>

NoId == 0
Id   == 1..MaxStarts
Text == Name \cup {NoText}

Memory == [id : Id \cup {NoId}, displayName : Text, name : Text,
           signature : Signature \cup {NoText}, signatureText : Signature \cup {NoText},
           role : Text, option : Option, shortcut : Option \cup {NoText},
          address : Option \cup {NoText}]

Blank == [id |-> NoId, displayName |-> NoText, name |-> NoText, signature |-> NoText,
          signatureText |-> NoText, role |-> NoText,
          option |-> Default, shortcut |-> Default, address |-> NoText]

NoMessage == [kind |-> "none"]

Row == [id : Id, displayName : Text]

orElse(text, default) == IF text = NoText THEN default ELSE text

(***************************************************************************)
(* StorageManager.  app_identity has the id as its key, is scanned from its *)
(* oldest row and read with LIMIT 1; REPLACE deletes the row and appends    *)
(* one.  The other tables hold one row.                                     *)
(***************************************************************************)
\* Mutant of readIdentity: the table of identities is not read.
readIdentity_None(id) == [Blank EXCEPT !.id = id]

\* The first SELECT.  loadSettings draws an id when it found none.
readIdentity(id) ==
  IF db.rows = <<>> THEN [Blank EXCEPT !.id = id]
  ELSE [Blank EXCEPT !.id = Head(db.rows).id, !.displayName = Head(db.rows).displayName]

\* The tables in the order they are read in, and what follows them.
following == [general_settings |-> "hotkey_settings", hotkey_settings |-> "mail_settings",
              mail_settings |-> "profile_details", profile_details |-> "app_state",
              app_state |-> "loaded"]
Table == DOMAIN following

\* An empty text leaves the default of the structure a table is read into.
readTable(m, table) ==
  LET d == db.settings
  IN  CASE table = "general_settings" -> [m EXCEPT !.option = d.option]
        [] table = "hotkey_settings" -> [m EXCEPT !.shortcut = orElse(d.shortcut, @)]
        [] table = "mail_settings" -> [m EXCEPT !.address = d.address]
        [] table = "profile_details" -> [m EXCEPT !.name = d.name, !.signature = d.signature]
        [] table = "app_state" -> [m EXCEPT !.role = d.role,
                                            !.signatureText = orElse(d.signatureText, @)]

replace(rows, row) ==
  LET old == {i \in DOMAIN rows : rows[i].id = row.id}
      k   == CHOOSE i \in old : TRUE
  IN  IF old = {} THEN Append(rows, row)
      ELSE [i \in DOMAIN rows |-> IF i < k THEN rows[i]
                                  ELSE IF i < Len(rows) THEN rows[i + 1] ELSE row]

rowOf(m)    == [id |-> m.id, displayName |-> m.displayName]
tablesOf(m) == [m EXCEPT !.id = NoId, !.displayName = NoText]

\* Mutant of saveState: INSERT OR IGNORE in place of REPLACE.
saveState_Ignore(d, m) ==
  [rows     |-> IF \E i \in DOMAIN d.rows : d.rows[i].id = m.id THEN d.rows
                ELSE Append(d.rows, rowOf(m)),
   settings |-> tablesOf(m)]

saveState(d, m) == [rows |-> replace(d.rows, rowOf(m)), settings |-> tablesOf(m)]

(***************************************************************************)
(* loadSettings: an empty name, signature or role gets its default; the     *)
(* display name is the profile's.                                           *)
(***************************************************************************)
withNames(m) ==
  LET displayName == orElse(m.displayName, HostName)
      name        == orElse(m.name, displayName)
      text        == orElse(m.signatureText, Placeholder)
  IN  [m EXCEPT !.displayName = name, !.name = name, !.signatureText = text,
                !.signature = orElse(@, text), !.role = orElse(@, RoleName)]

(***************************************************************************)
(* persistSettings, of the memory m that process p now has.  What it stores *)
(* is there for the processes that are reading the tables.                  *)
(***************************************************************************)
persistSettings(p, m) ==
  IF ready[p] THEN /\ db' = saveState(db, m) /\ saved' = m /\ saver' = {p}
                   /\ sources' = [q \in Process |-> IF phase[q] \in Table THEN sources[q] \cup {m}
                                                   ELSE sources[q]]
              ELSE UNCHANGED <<db, saved, saver, sources>>

(***************************************************************************)
(* The first start finds no tables.                                         *)
(***************************************************************************)
Init ==
  /\ phase = [p \in Process |-> "off"]
  /\ ready = [p \in Process |-> FALSE]
  /\ memory = [p \in Process |-> Blank]
  /\ wireName = [p \in Process |-> NoText]
  /\ db = [rows |-> <<>>, settings |-> Blank]
  /\ sent = NoMessage
  /\ heard = {} /\ saved = Blank /\ saver = {} /\ sources = [p \in Process |-> {}]
  /\ starts = 0 /\ edits = 0 /\ failures = 0 /\ deaths = 0 /\ overlaps = 0

starting(p) == phase[p] \notin {"off", "up"}

\* ChatController::initialize: the database is opened and the identity read, or it
\* cannot be opened and there is nothing to read.
load(p) ==
  /\ phase[p] = "off"
  /\ starts < MaxStarts /\ starts' = starts + 1
  /\ \/ /\ ready' = [ready EXCEPT ![p] = TRUE]
        /\ phase' = [phase EXCEPT ![p] = "general_settings"]
        /\ memory' = [memory EXCEPT ![p] = readIdentity(starts + 1)]
        /\ sources' = [sources EXCEPT ![p] = {saved}]
        /\ UNCHANGED failures
     \/ /\ failures < MaxFailures /\ failures' = failures + 1
        /\ phase' = [phase EXCEPT ![p] = "loaded"]
        /\ ready' = [ready EXCEPT ![p] = FALSE]
        /\ memory' = [memory EXCEPT ![p] = withNames([Blank EXCEPT !.id = starts + 1])]
        /\ UNCHANGED sources
  /\ overlaps' = IF \E q \in Process \ {p} : starting(q) THEN overlaps + 1 ELSE overlaps
  /\ sent' = NoMessage
  /\ UNCHANGED <<wireName, db, heard, saved, saver, edits, deaths>>

\* The next SELECT of loadState; after the last the empty names are filled in.
loadTable(p) ==
  LET read == readTable(memory[p], phase[p])
  IN  /\ phase[p] \in Table
      /\ phase' = [phase EXCEPT ![p] = following[@]]
      /\ memory' = [memory EXCEPT ![p] = IF phase[p] = "app_state" THEN withNames(read) ELSE read]
      /\ sent' = NoMessage
      /\ UNCHANGED <<ready, wireName, db, history, spent>>

\* The names are handed to the router and the discovery service, which announces them ...
announceOnline(p) ==
  /\ phase[p] = "loaded"
  /\ phase' = [phase EXCEPT ![p] = "announced"]
  /\ wireName' = [wireName EXCEPT ![p] = memory[p].displayName]
  /\ heard' = heard \cup {[id |-> memory[p].id, name |-> memory[p].displayName]}
  /\ sources' = [sources EXCEPT ![p] = {}]
  /\ sent' = NoMessage
  /\ UNCHANGED <<ready, memory, db, saved, saver, overlaps, spent>>

\* ... and only then is everything stored.
initialized(p) ==
  /\ phase[p] = "announced"
  /\ phase' = [phase EXCEPT ![p] = "up"]
  /\ persistSettings(p, memory[p])
  /\ sent' = NoMessage
  /\ UNCHANGED <<ready, memory, wireName, heard, overlaps, spent>>

(***************************************************************************)
(* What users change is stored at once.                                     *)
(***************************************************************************)
\* Mutant of edit: the settings are stored before they are changed.
edit_StoreFirst(p, m) ==
  /\ phase[p] = "up"
  /\ edits < MaxEdits /\ edits' = edits + 1
  /\ memory' = [memory EXCEPT ![p] = m]
  /\ persistSettings(p, memory[p])
  /\ sent' = NoMessage
  /\ UNCHANGED <<phase, ready, wireName, heard, overlaps, starts, failures, deaths>>

edit(p, m) ==
  /\ phase[p] = "up"
  /\ edits < MaxEdits /\ edits' = edits + 1
  /\ memory' = [memory EXCEPT ![p] = m]
  /\ persistSettings(p, m)
  /\ sent' = NoMessage
  /\ UNCHANGED <<phase, ready, wireName, heard, overlaps, starts, failures, deaths>>

\* An empty name leaves m_displayName as it is.
updateProfileDetails(p, name, signature) ==
  edit(p, [memory[p] EXCEPT !.name = name, !.displayName = orElse(name, @),
                            !.signature = signature, !.signatureText = signature])

\* ProfileDialog: whatever the fields hold.
saveProfile(p) ==
  \E name \in Text, signature \in Signature \cup {NoText} :
    updateProfileDetails(p, name, signature)

\* SettingsDialog: a box that is ticked or a value that is picked, never an empty one ...
bindGeneralSettings(p) ==
  \E option \in Option : edit(p, [memory[p] EXCEPT !.option = option])

\* ... and texts that are typed.
bindHotkeySettings(p) ==
  \E text \in Option \cup {NoText} : edit(p, [memory[p] EXCEPT !.shortcut = text])

bindMailSettings(p) ==
  \E text \in Option \cup {NoText} : edit(p, [memory[p] EXCEPT !.address = text])

(***************************************************************************)
(* A chat message has the name of the profile, a file that of the role.     *)
(***************************************************************************)
shown(m) == orElse(m.name, m.displayName)

message(p, kind, name) ==
  [kind |-> kind, roleName |-> name, displayName |-> wireName[p], profile |-> shown(memory[p])]

\* Mutant of roleNameOf: a file from an installation without a role.
roleNameOf_NoRole(m, kind) == NoText

roleNameOf(m, kind) ==
  CASE kind = "chat" -> shown(m)
    [] kind = "file" -> IF m.role = NoText THEN m.displayName ELSE m.role

send(p, kind) ==
  /\ phase[p] = "up"
  /\ sent' = message(p, kind, roleNameOf(memory[p], kind))
  /\ UNCHANGED <<process, db, history, spent>>

\* The process ends, at any moment: nothing is stored on the way out.
die(p) ==
  /\ phase[p] # "off"
  /\ starting(p) => deaths < MaxDeaths
  /\ deaths' = IF starting(p) THEN deaths + 1 ELSE deaths
  /\ phase' = [phase EXCEPT ![p] = "off"]
  /\ ready' = [ready EXCEPT ![p] = FALSE]
  /\ memory' = [memory EXCEPT ![p] = Blank]
  /\ wireName' = [wireName EXCEPT ![p] = NoText]
  /\ saver' = saver \ {p}
  /\ sources' = [sources EXCEPT ![p] = {}]
  /\ sent' = NoMessage
  /\ UNCHANGED <<db, heard, saved, overlaps, starts, edits, failures>>

Next ==
  \E p \in Process :
    \/ load(p) \/ loadTable(p) \/ announceOnline(p) \/ initialized(p) \/ die(p)
    \/ saveProfile(p)
    \/ bindGeneralSettings(p) \/ bindHotkeySettings(p) \/ bindMailSettings(p)
    \/ \E kind \in {"chat", "file"} : send(p, kind)

Spec == Init /\ [][Next]_vars

(***************************************************************************)
(* Properties.                                                              *)
(***************************************************************************)
TypeOK ==
  /\ phase \in [Process -> {"off", "loaded", "announced", "up"} \cup Table]
  /\ ready \in [Process -> BOOLEAN]
  /\ memory \in [Process -> Memory]
  /\ wireName \in [Process -> Text]
  /\ db \in [rows : Seq(Row), settings : Memory]
  /\ sent = NoMessage
       \/ sent \in [kind : {"chat", "file"}, roleName : Name, displayName : Name, profile : Name]
  /\ heard \subseteq [id : Id, name : Name]
  /\ saved \in Memory /\ saver \subseteq Process /\ sources \in [Process -> SUBSET Memory]
  /\ starts \in 0..MaxStarts /\ edits \in 0..MaxEdits
  /\ failures \in 0..MaxFailures /\ deaths \in 0..MaxDeaths /\ overlaps \in Nat

\* loadSettings: the others on the network, who keep a contact for each id they ever
\* heard, know the installation under one id, plus at most one for each start without
\* a database, each process that died before it stored, and each start that overlapped
\* another one's.
IdentitiesAreAccountedFor ==
  Cardinality({h.id : h \in heard}) <= 1 + failures + deaths + overlaps

\* app_identity has a second row, and restarts begin to alternate between two ids, only
\* when one process loaded before another that was also starting had stored.
SecondRowNeedsOverlap == Len(db.rows) <= 1 + overlaps

\* persistSettings after every change: as long as no other process has stored, the
\* tables hold what the process shows, whatever was changed before and in which order.
ChangesAreStored ==
  \A p \in Process :
    (phase[p] = "up" /\ p \in saver) =>
      /\ db.settings = tablesOf(memory[p])
      /\ db.rows # <<>> /\ db.rows[Len(db.rows)] = rowOf(memory[p])

\* Each part of m is that of one of the states stored, or its default.
ShowsOnly(m, stored) ==
  /\ \E s \in stored : m.id = s.id
  /\ \E s, t \in stored : shown(m) = orElse(t.name, s.displayName)
  /\ \E s, t \in stored : m.signature = orElse(s.signature, orElse(t.signatureText, Placeholder))
  /\ (\A s \in stored : s.signature = NoText) => m.signature = Placeholder
  /\ \E s \in stored : m.role = orElse(s.role, RoleName)
  /\ \E s \in stored : m.option = s.option
  /\ \E s \in stored : m.shortcut = orElse(s.shortcut, Default)
  /\ \E s \in stored : m.address = s.address

\* saveState, loadState and loadSettings: a process that starts shows what was stored last
\* when it began to load.  When another process stores meanwhile it may show an old name
\* with a new signature, but each part of what it shows is from the one state or the
\* other.  A cleared name comes back as the display name, an empty signature or shortcut
\* as its default; an empty address stays empty.
RestartShowsStoredState ==
  \A p \in Process :
    (phase[p] = "loaded" /\ ready[p] /\ Blank \notin sources[p] /\ Len(db.rows) = 1) =>
      ShowsOnly(memory[p], sources[p])

\* The change log says that messages are sent under the profile.
SentUnderProfile == sent # NoMessage => sent.roleName = sent.profile
=============================================================================
