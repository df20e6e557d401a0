---------------------------- MODULE ConfigImport ----------------------------
(***************************************************************************)
(* Export, preview and import of the configuration (core/config_transfer). *)
(*                                                                         *)
(* The import is a two-step protocol.  A preview resolves every entry of a *)
(* document against the rows of the same name, decides create, overwrite   *)
(* or skip, and hands out a signed token that carries the document, the    *)
(* mode and a fingerprint of what it saw.  The confirmation computes the   *)
(* fingerprint again, compares, and then writes every row in one           *)
(* transaction.  SQLite opens that transaction with the first write, so    *)
(* the comparison reads before it, and so do the loads of the rows up to   *)
(* the first that is changed: Check, every Load and Write are steps of     *)
(* their own, and an editor, a worker or the CLI may commit in between.    *)
(* An export reads table after table outside any transaction.              *)
(*                                                                         *)
(* Storages, Profiles and Playlists are rows of three tables with the same *)
(* shape here: "value" is what the row connects to or how it downloads,    *)
(* "secret" the free-form or encrypted part, which remembers the value it  *)
(* was entered for.                                                        *)
(***************************************************************************)
EXTENDS Integers, FiniteSets, Sequences

CONSTANTS Ids,           \* identifiers of the rows of a table
          Names,         \* names of rows
          NewNames,      \* those the editors give to new rows
          Values,        \* connections of Storages, settings of Profiles, URLs of Playlists
          RemoteValues,  \* connections over the network
          PrivateValues, \* URLs and connections that may hold a secret
          Placeholder,   \* what is exported in their place
          Folders,       \* folder names of Playlists
          Keeps,         \* retention policies
          Refs,          \* references of documents to their own entries
          SettingKeys,   \* global settings that can be overridden
          Documents,     \* configuration documents that pass the schema
          InitialDatabases, \* tables and assignments an import may meet
          None,
          MaxStamp,      \* bound: commits that change the configuration
          EditsUntil,    \* bound: commits after which operators edit nothing more
          MaxTokens,     \* bound: previews
          MaxFiles       \* bound: documents at hand

Entities == {"Storage", "Profile", "Playlist"}
Modes == {"skip", "overwrite", "create"}

\* The references of one kind of row are distinct, and so are their names;
\* every reference of an assignment is declared for its kind.
DocumentIsValid(doc) ==
    /\ \A e \in Entities : \A r, s \in doc.rows[e] :
           r.ref = s.ref \/ r.name = s.name => r = s
    /\ \A l \in doc.links :
           /\ \E r \in doc.rows["Playlist"] : r.ref = l.playlist
           /\ \E r \in doc.rows["Profile"] : r.ref = l.profile
           /\ \E r \in doc.rows["Storage"] : r.ref = l.storage
    /\ \A l, m \in doc.links :
           l.playlist = m.playlist /\ l.profile = m.profile => l = m

EntryType ==
    [ref : Refs, name : Names, value : Values, on : BOOLEAN, reenter : BOOLEAN,
     reenterUrl : BOOLEAN, folder : Folders,
     policy : [keep : Keeps \cup {None}, enabled : BOOLEAN]]

DocumentTypeOK(doc) ==
    /\ \A e \in Entities : doc.rows[e] \subseteq EntryType
    /\ doc.links \subseteq [playlist : Refs, profile : Refs, storage : Refs]

\* A row, with the token and the entry it was made by, under the name it still
\* has, and whether an import last wrote it from a version that was gone.
RowType ==
    [name : Names, value : Values, secret : Values \cup {None}, on : BOOLEAN,
     folder : Folders,
     policy : [keep : Keeps \cup {None}, enabled : BOOLEAN, dryRun : Keeps \cup {None}],
     at : Nat, by : {None} \cup (Nat \X Entities \X Refs), torn : BOOLEAN]

LinkType == [storage : Ids, at : Nat]

ASSUME DocumentsAssumption ==
    /\ \A doc \in Documents : DocumentTypeOK(doc) /\ DocumentIsValid(doc)
    /\ Entities \X Ids \subseteq Refs

\* The databases an import meets have been edited only.
ASSUME TablesAssumption ==
    \A initial \in InitialDatabases :
        /\ initial.tables \in [Entities -> [Ids -> RowType \cup {None}]]
        /\ initial.links \in [Ids \X Ids -> LinkType \cup {None}]
        /\ \A e \in Entities, i \in Ids : initial.tables[e][i] # None =>
               LET row == initial.tables[e][i]
               IN  /\ row.at = 0 /\ row.by = None /\ ~row.torn
                   /\ row.secret \in {None, row.value}
                   /\ row.policy.enabled => row.policy.dryRun = row.policy.keep

ASSUME BoundsAssumption ==
    /\ MaxStamp \in Nat /\ MaxTokens \in Nat /\ EditsUntil \in 0..MaxStamp
    /\ Placeholder \in Values \ PrivateValues
    /\ NewNames \subseteq Names /\ Folders # {}
    /\ IsFiniteSet(Ids) /\ None \notin Nat \cup Ids \cup RowType \cup LinkType

VARIABLES tables,    \* tables[e][i]: a row or None
          links,     \* links[<<p, q>>]: assignment of Profile q to Playlist p, or None
          settings,  \* settings[k]: an override or None
          files,     \* documents the operator can upload
          tokens,    \* confirmation tokens in the order they were handed out
          writing,   \* the token whose comparison has succeeded, or None
          loaded,    \* what it has loaded before its transaction
          export,    \* tables and assignments an export has read so far
          clock      \* commits so far: updated_at of the newest row

importVars == <<tables, links, settings, files, tokens, writing, loaded, export, clock>>
database == <<tables, links, settings, clock>>

NoPolicy == [keep |-> None, enabled |-> FALSE, dryRun |-> None]

-----------------------------------------------------------------------------
(* The rows a document meets.                                              *)

TableRows(e) == {tables[e][i] : i \in Ids} \ {None}
Named(e, n) == {i \in Ids : tables[e][i] # None /\ tables[e][i].name = n}

Unclear(e, n) == Cardinality(Named(e, n)) > 1

\* Two rows of one name: the import, preview and confirmation alike, is refused.
Ambiguous(doc) == \E e \in Entities : \E r \in doc.rows[e] : Unclear(e, r.name)

Existing(e, n) == IF Named(e, n) = {} THEN None ELSE CHOOSE i \in Named(e, n) : TRUE

ActionFor(existing, mode) ==
    IF existing = None \/ mode = "create" THEN "create" ELSE mode

\* A setting's key is unique: in mode "create" the override that exists stays.
SettingAction(k, mode) ==
    IF settings[k] = None THEN "create"
    ELSE IF mode = "overwrite" THEN "overwrite" ELSE "skip"

EntitiesOf(doc, ref) == {e \in Entities : \E r \in doc.rows[e] : r.ref = ref}

\* One dictionary holds the rows of all three kinds by reference, and the
\* kinds are entered in this order: the last one that has the reference stays.
EntityOf(doc, ref) ==
    IF "Playlist" \in EntitiesOf(doc, ref) THEN "Playlist"
    ELSE IF "Profile" \in EntitiesOf(doc, ref) THEN "Profile" ELSE "Storage"

Entry(doc, e, ref) == CHOOSE r \in doc.rows[e] : r.ref = ref

\* What the preview knows of a reference: an existing row it keeps, or nothing.
Resolved(doc, mode, ref) ==
    LET e == EntityOf(doc, ref)
        i == Existing(e, Entry(doc, e, ref).name)
    IN  IF ActionFor(i, mode) = "create" THEN None ELSE i

LinkSeen(doc, mode, l) ==
    LET p == Resolved(doc, mode, l.playlist)
        q == Resolved(doc, mode, l.profile)
    IN  IF p = None \/ q = None \/ links[<<p, q>>] = None THEN None ELSE <<p, q>>

\* What is decided for each entry of a kind.
RowPlan(doc, mode, e) ==
    {[entity |-> e, ref |-> r.ref, id |-> Existing(e, r.name),
      at |-> IF Existing(e, r.name) = None THEN None ELSE tables[e][Existing(e, r.name)].at,
      action |-> ActionFor(Existing(e, r.name), mode)] : r \in doc.rows[e]}

\* The operations of the plan with the versions of the rows they were decided
\* on: the fingerprint is a digest of exactly this.
Plan(doc, mode) ==
    [rows |-> UNION {RowPlan(doc, mode, e) : e \in Entities},
     links |-> {[link |-> l, seen |-> LinkSeen(doc, mode, l),
                 at |-> IF LinkSeen(doc, mode, l) = None THEN None
                        ELSE links[LinkSeen(doc, mode, l)].at,
                 action |-> ActionFor(LinkSeen(doc, mode, l), mode)] : l \in doc.links},
     settings |-> {[key |-> k,
                    at |-> IF settings[k] = None THEN None ELSE settings[k].at,
                    action |-> SettingAction(k, mode)] : k \in DOMAIN doc.settings}]

RowAction(plan, e, ref) ==
    (CHOOSE o \in plan.rows : o.entity = e /\ o.ref = ref).action
LinkAction(plan, l) == (CHOOSE o \in plan.links : o.link = l).action
SettingOf(plan, k) == (CHOOSE o \in plan.settings : o.key = k).action

-----------------------------------------------------------------------------
(* What an import writes.                                                  *)

FaultyImportedSecret(token, e, entry, old) ==
    [name |-> entry.name, value |-> entry.value,
     secret |-> IF entry.reenter \/ old = None THEN None ELSE old.secret, on |-> FALSE,
     folder |-> IF old # None THEN old.folder ELSE entry.folder, policy |-> NoPolicy,
     at |-> clock + 1, by |-> <<token.number, e, entry.ref>>, torn |-> FALSE]

FaultyImportedRetention(token, e, entry, old) ==
    [name |-> entry.name,
     value |-> IF entry.reenterUrl /\ old # None THEN old.value ELSE entry.value,
     secret |-> None, on |-> FALSE,
     folder |-> IF old # None THEN old.folder ELSE entry.folder, policy |-> NoPolicy,
     at |-> clock + 1, by |-> <<token.number, e, entry.ref>>, torn |-> FALSE]

\* Credentials, cookies and free-form arguments are never taken over, whatever
\* the markers of the document say; a Storage on the network and a Playlist
\* that needs anything entered again come back disabled or paused.
Imported(token, e, entry, old) ==
    [name |-> entry.name,
     value |-> IF entry.reenterUrl /\ old # None THEN old.value ELSE entry.value,
     secret |-> None,
     on |-> CASE e = "Storage" -> entry.on /\ entry.value \notin RemoteValues /\ ~entry.reenter
              [] e = "Playlist" -> entry.on /\ ~entry.reenter /\ ~entry.reenterUrl
                                   /\ ~entry.policy.enabled
              [] OTHER -> TRUE,
     folder |-> IF old # None THEN old.folder ELSE entry.folder,
     policy |-> [keep |-> entry.policy.keep, enabled |-> FALSE, dryRun |-> None],
     at |-> clock + 1,
     by |-> <<token.number, e, entry.ref>>,
     torn |-> FALSE]

\* Identifiers SQLite gives to the new rows.
Created(token, e) ==
    {r.ref : r \in {x \in token.doc.rows[e] : RowAction(token.plan, e, x.ref) = "create"}}
FreeIds(e) == {i \in Ids : tables[e][i] = None}
NewIds(token, e) ==
    {f \in [Created(token, e) -> FreeIds(e)] :
        \A x, y \in Created(token, e) : f[x] = f[y] => x = y}
NewId(token, e) == CHOOSE f \in NewIds(token, e) : TRUE

\* What an entry has loaded, else the row of its name.
LoadsOf(e, ref) == {l \in loaded : l.entity = e /\ l.ref = ref}
IsLoaded(e, ref) == LoadsOf(e, ref) # {}
LoadOf(e, ref) == CHOOSE l \in LoadsOf(e, ref) : TRUE

Found(e, entry) ==
    IF IsLoaded(e, entry.ref) THEN LoadOf(e, entry.ref).id ELSE Existing(e, entry.name)
FoundRow(e, entry) ==
    IF IsLoaded(e, entry.ref) THEN LoadOf(e, entry.ref).row
    ELSE IF Found(e, entry) = None THEN None ELSE tables[e][Found(e, entry)]

\* The row every entry ends up as: the one of its name, or a new one.
RowOf(token, e, entry) ==
    IF RowAction(token.plan, e, entry.ref) = "create" THEN NewId(token, e)[entry.ref]
    ELSE Found(e, entry)

MappedId(token, ref) ==
    LET e == EntityOf(token.doc, ref)
    IN  RowOf(token, e, Entry(token.doc, e, ref))

\* No column has another value: there is no UPDATE and updated_at stays.
Same(old, new) ==
    /\ new.value = old.value /\ new.secret = old.secret
    /\ new.on = old.on /\ new.policy = old.policy

\* The UPDATE: the columns whose value is not the one that was loaded.
Updated(row, old, new) ==
    [name |-> row.name,
     value |-> IF new.value = old.value THEN row.value ELSE new.value,
     secret |-> IF new.secret = old.secret THEN row.secret ELSE new.secret,
     on |-> IF new.on = old.on THEN row.on ELSE new.on,
     folder |-> row.folder,
     policy |-> IF new.policy = old.policy THEN row.policy ELSE new.policy,
     at |-> new.at,
     by |-> row.by,
     torn |-> row # old]

\* A row that is overwritten, by the values it had when it was loaded.
Overwritten(token, e, i, r) ==
    LET old == FoundRow(e, r)
        new == Imported(token, e, r, old)
    IN  IF Same(old, new) THEN tables[e][i] ELSE Updated(tables[e][i], old, new)

\* Two entries meet in one row only if it takes the second name after the first
\* was loaded: one of them is written.
WritersOf(token, e, i) ==
    {r \in token.doc.rows[e] :
        RowOf(token, e, r) = i /\ RowAction(token.plan, e, r.ref) # "skip"}

WrittenRow(token, e, i) ==
    LET r == CHOOSE x \in WritersOf(token, e, i) : TRUE
    IN  IF WritersOf(token, e, i) = {} THEN tables[e][i]
        ELSE IF RowAction(token.plan, e, r.ref) = "create" THEN Imported(token, e, r, None)
        ELSE Overwritten(token, e, i, r)

PairOf(token, l) ==
    <<MappedId(token, l.playlist), MappedId(token, l.profile)>>

WrittenLinks(token) == {l \in token.doc.links : LinkAction(token.plan, l) # "skip"}

WrittenLink(token, l) ==
    LET storage == MappedId(token, l.storage)
        old == links[PairOf(token, l)]
    IN  IF old # None /\ old.storage = storage THEN old
        ELSE [storage |-> storage, at |-> clock + 1]

WrittenSetting(token, k) ==
    IF settings[k] # None /\ settings[k].value = token.doc.settings[k] THEN settings[k]
    ELSE [value |-> token.doc.settings[k], at |-> clock + 1]

-----------------------------------------------------------------------------
ImportInit ==
    /\ \E initial \in InitialDatabases : tables = initial.tables /\ links = initial.links
    /\ settings = [k \in SettingKeys |-> None]
    /\ files = Documents
    /\ tokens = <<>>
    /\ writing = None /\ loaded = {}
    /\ export = <<>>
    /\ clock = 0

\* The preview route: nothing is written but the token.  As a bound, an export
\* under way is finished first: it writes nothing that an import reads.
Preview(doc, mode) ==
    /\ Len(tokens) < MaxTokens /\ export = <<>>
    /\ ~Ambiguous(doc)
    /\ tokens' = Append(tokens, [number |-> Len(tokens) + 1, doc |-> doc, mode |-> mode,
                                 plan |-> Plan(doc, mode), valid |-> TRUE])
    /\ UNCHANGED <<database, files, writing, loaded, export>>

\* The signature of a token is good for half an hour.
Expire(n) ==
    /\ tokens[n].valid
    /\ tokens' = [tokens EXCEPT ![n].valid = FALSE]
    /\ UNCHANGED <<database, files, writing, loaded, export>>

FaultyCheck(token) ==
    /\ writing = None
    /\ token.valid
    /\ ~Ambiguous(token.doc)
    /\ writing' = token
    /\ UNCHANGED <<database, files, tokens, loaded, export>>

\* apply_config_import up to the comparison.  The routes that apply run one at
\* a time on the event loop; a comparison that fails leaves nothing behind.
Check(token) ==
    /\ writing = None
    /\ token.valid
    /\ ~Ambiguous(token.doc)
    /\ Plan(token.doc, token.mode) = token.plan
    /\ writing' = token
    /\ UNCHANGED <<database, files, tokens, loaded, export>>

\* The order in which tables are imported, and read by an export.
Before(e) == CASE e = "Storage" -> {} [] e = "Profile" -> {"Storage"}
               [] e = "Playlist" -> {"Storage", "Profile"}
               [] OTHER -> Entities

\* A load that leads to no INSERT and no UPDATE leaves the transaction closed.
IsQuiet(l) ==
    LET entry == Entry(writing.doc, l.entity, l.ref)
    IN  CASE RowAction(writing.plan, l.entity, l.ref) = "create" -> FALSE
          [] RowAction(writing.plan, l.entity, l.ref) = "skip" -> TRUE
          [] OTHER -> Same(l.row, Imported(writing, l.entity, entry, l.row))

\* apply_config_import: the next row is looked for, and no row was changed yet.
\* Once one is to be changed the rest reads within the transaction.
Load(e, entry) ==
    LET i == Existing(e, entry.name)
    IN  /\ \A l \in loaded : IsQuiet(l)
        /\ \A f \in Before(e) : \A x \in writing.doc.rows[f] : IsLoaded(f, x.ref)
        /\ ~IsLoaded(e, entry.ref) /\ ~Unclear(e, entry.name)
        /\ i = None => RowAction(writing.plan, e, entry.ref) = "create"
        /\ loaded' = loaded \cup {[entity |-> e, ref |-> entry.ref, id |-> i,
                                   row |-> IF i = None THEN None ELSE tables[e][i]]}
        /\ UNCHANGED <<database, files, tokens, writing, export>>

\* Ambiguous names, no row to overwrite any more, a pair that is assigned
\* already and an assignment of rows that are not there end the transaction.
\* So does a new Playlist beside one of its name whose URL must be entered
\* again: the URL is left out as if there were a row to keep it from.
Fails(token) ==
    \/ \E e \in Entities : \E r \in token.doc.rows[e] :
           \/ ~IsLoaded(e, r.ref) /\ Unclear(e, r.name)
           \/ RowOf(token, e, r) = None
    \/ \E l \in loaded : ~IsQuiet(l) /\ l.id # None /\ tables[l.entity][l.id] = None
    \/ \E r \in token.doc.rows["Playlist"] :
           /\ RowAction(token.plan, "Playlist", r.ref) = "create"
           /\ r.reenterUrl
           /\ FoundRow("Playlist", r) # None
    \/ \E l \in WrittenLinks(token) :
           LET pair == PairOf(token, l)
           IN  \/ LinkAction(token.plan, l) = "create" /\ links[pair] # None
               \/ LinkAction(token.plan, l) = "overwrite" /\ links[pair] = None
               \/ WrittenRow(token, "Playlist", pair[1]) = None
               \/ WrittenRow(token, "Profile", pair[2]) = None
               \/ WrittenRow(token, "Storage", MappedId(token, l.storage)) = None

\* apply_config_import from its first INSERT or UPDATE, after any number of
\* loads, to the commit or the rollback.
Write ==
    /\ writing # None
    /\ clock < MaxStamp
    /\ \A e \in Entities : NewIds(writing, e) # {}
    /\ IF Fails(writing)
       THEN UNCHANGED database
       ELSE /\ tables' = [e \in Entities |-> [i \in Ids |-> WrittenRow(writing, e, i)]]
            /\ links' = [pair \in Ids \X Ids |->
                   IF \E l \in WrittenLinks(writing) : PairOf(writing, l) = pair
                   THEN WrittenLink(writing,
                            CHOOSE l \in WrittenLinks(writing) :
                                PairOf(writing, l) = pair)
                   ELSE links[pair]]
            /\ settings' = [k \in SettingKeys |->
                   IF k \in DOMAIN writing.doc.settings
                      /\ SettingOf(writing.plan, k) # "skip"
                   THEN WrittenSetting(writing, k)
                   ELSE settings[k]]
            /\ clock' = IF <<tables', links', settings'>> = <<tables, links, settings>>
                        THEN clock ELSE clock + 1
    /\ writing' = None /\ loaded' = {}
    /\ UNCHANGED <<files, tokens, export>>

-----------------------------------------------------------------------------
(* The export: the configuration without secrets and without private parts. *)

ExportedEntry(e, i, row) ==
    LET private == row.value \in PrivateValues
    IN  [ref |-> <<e, i>>, name |-> row.name,
         value |-> IF private THEN Placeholder ELSE row.value,
         on |-> row.on,
         reenter |-> \/ row.secret # None
                     \/ e = "Storage" /\ (private \/ row.value \in RemoteValues),
         reenterUrl |-> e = "Playlist" /\ private,
         folder |-> row.folder,
         policy |-> [keep |-> row.policy.keep, enabled |-> row.policy.enabled]]

\* One of the four selects of an export.  As a bound, none begins when no token
\* is left to preview its document.
Parts == Entities \cup {"links"}

ReadPart(part) ==
    /\ Cardinality(files) < MaxFiles /\ Len(tokens) < MaxTokens
    /\ part \notin DOMAIN export /\ Before(part) \subseteq DOMAIN export
    /\ export' = [p \in DOMAIN export \cup {part} |->
                    IF p \in DOMAIN export THEN export[p]
                    ELSE IF part = "links" THEN links ELSE tables[part]]
    /\ UNCHANGED <<database, files, tokens, writing, loaded>>

ReadPairs == {pair \in Ids \X Ids : export["links"][pair] # None}

\* The document is built with the checks of an upload: two rows of one name
\* raise, and so does an assignment of a row that came after its table was read.
CannotExport ==
    \/ \E e \in Entities : \E i, j \in Ids :
           /\ i # j /\ export[e][i] # None /\ export[e][j] # None
           /\ export[e][i].name = export[e][j].name
    \/ \E pair \in ReadPairs :
           \/ export["Playlist"][pair[1]] = None \/ export["Profile"][pair[2]] = None
           \/ export["Storage"][export["links"][pair].storage] = None

Exported ==
    [rows |-> [e \in Entities |->
                  {ExportedEntry(e, i, export[e][i]) : i \in {j \in Ids : export[e][j] # None}}],
     links |-> {[playlist |-> <<"Playlist", pair[1]>>, profile |-> <<"Profile", pair[2]>>,
                 storage |-> <<"Storage", export["links"][pair].storage>>] : pair \in ReadPairs},
     settings |-> [k \in {x \in SettingKeys : settings[x] # None} |-> settings[k].value]]

\* The settings are read last.
Export ==
    /\ DOMAIN export = Parts
    /\ files' = IF CannotExport THEN files ELSE files \cup {Exported}
    /\ export' = <<>>
    /\ UNCHANGED <<database, tokens, writing, loaded>>

-----------------------------------------------------------------------------
(* The editors of the web interface and of the command line.               *)

SaveTables(newTables) ==
    /\ clock < EditsUntil
    /\ tables' = newTables
    /\ clock' = clock + 1
    /\ UNCHANGED <<settings, files, tokens, writing, loaded, export>>

Update(e, i, row) == SaveTables([tables EXCEPT ![e][i] = row]) /\ UNCHANGED links

\* A form that is saved: every field at once.  A secret the operator keeps or
\* enters is meant for the value; a Profile cannot be switched off.
EditRow(e, i, n, v, on) ==
    /\ tables[e][i] # None
    /\ e = "Profile" => on
    /\ v = Placeholder => tables[e][i].value = v
    /\ \E s \in {None, v} :
           Update(e, i, [tables[e][i] EXCEPT
                            !.name = n, !.value = v, !.secret = s, !.on = on,
                            !.at = clock + 1, !.torn = FALSE,
                            !.by = IF n = tables[e][i].name THEN tables[e][i].by ELSE None])

CreateRow(e, i, n, v) ==
    /\ tables[e][i] = None
    /\ Update(e, i, [name |-> n, value |-> v, secret |-> None, on |-> TRUE,
                     folder |-> CHOOSE f \in Folders : TRUE, policy |-> NoPolicy,
                     at |-> clock + 1, by |-> None, torn |-> FALSE])

\* A Playlist takes its assignments along; a Storage or a Profile that is
\* assigned stays.
DeleteRow(e, i) ==
    /\ tables[e][i] # None
    /\ \A pair \in Ids \X Ids : links[pair] # None =>
           /\ e = "Profile" => pair[2] # i
           /\ e = "Storage" => links[pair].storage # i
    /\ SaveTables([tables EXCEPT ![e][i] = None])
    /\ links' = [pair \in Ids \X Ids |->
                    IF e = "Playlist" /\ pair[1] = i THEN None ELSE links[pair]]

\* The retention page enables a policy after its own dry run.
EnableRetention(i, k) ==
    /\ tables["Playlist"][i] # None
    /\ Update("Playlist", i,
              [tables["Playlist"][i] EXCEPT
                   !.policy = [keep |-> k, enabled |-> TRUE, dryRun |-> k],
                   !.at = clock + 1])

ChangeSetting(k, v) ==
    /\ clock < EditsUntil
    /\ settings' = [settings EXCEPT ![k] = [value |-> v, at |-> clock + 1]]
    /\ clock' = clock + 1
    /\ UNCHANGED <<tables, links, files, tokens, writing, loaded, export>>

Editors ==
    \/ \E e \in Entities, i \in Ids :
           \/ \E n \in Names, v \in Values, on \in BOOLEAN : EditRow(e, i, n, v, on)
           \/ \E n \in NewNames, v \in Values \ {Placeholder} : CreateRow(e, i, n, v)
           \/ DeleteRow(e, i)
    \/ \E i \in Ids, k \in Keeps : EnableRetention(i, k)
    \/ \E k \in SettingKeys, v \in Values \ {Placeholder} : ChangeSetting(k, v)

Imports ==
    \/ \E doc \in files, mode \in Modes : Preview(doc, mode)
    \/ \E n \in DOMAIN tokens : Expire(n) \/ Check(tokens[n])
    \/ \E e \in Entities : writing # None /\ \E entry \in writing.doc.rows[e] : Load(e, entry)
    \/ Write
    \/ \E part \in Parts : ReadPart(part)
    \/ Export

ImportNext == Imports \/ Editors

ImportSpec == ImportInit /\ [][ImportNext]_importVars

-----------------------------------------------------------------------------
\* Every table holds rows of the shape the models declare, and an import under
\* way works from a token that was handed out.
ImportTypeOK ==
    /\ tables \in [Entities -> [Ids -> RowType \cup {None}]]
    /\ links \in [Ids \X Ids -> LinkType \cup {None}]
    /\ \A n \in DOMAIN tokens : tokens[n].number = n /\ tokens[n].mode \in Modes
    /\ writing # None => writing.number \in DOMAIN tokens
    /\ loaded # {} => writing # None
    /\ clock \in 0..MaxStamp

\* A credential, a cookie or a free-form argument is only ever used with the
\* connection, source or settings it was entered for: an import that turns a
\* row to something else does not leave the secret behind, whichever markers
\* the document carries (values["credentials_encrypted"] = None and its kin).
\* The exception is a row that was edited between its load and its UPDATE.
SecretsMatchTheirValue ==
    \A e \in Entities : \A row \in TableRows(e) : row.torn \/ row.secret \in {None, row.value}

\* Retention deletes only under a policy whose own dry run was confirmed: an
\* import neither enables a policy nor changes one that stays enabled.
RetentionNeedsItsDryRun ==
    \A row \in TableRows("Playlist") : row.policy.enabled => row.policy.dryRun = row.policy.keep

\* What no import may do, whatever is edited while it is under way: secrets
\* and retention stay safe together.
ImportIsSafe == SecretsMatchTheirValue /\ RetentionNeedsItsDryRun

\* A confirmation that is submitted twice, or again after other changes, makes
\* no second row of the entry while the one it made has its name.
ConfirmedOnce ==
    \A e \in Entities : \A i, j \in Ids :
        /\ tables[e][i] # None /\ tables[e][j] # None
        /\ tables[e][i].by # None /\ tables[e][i].by = tables[e][j].by
        => i = j

\* Somebody has written the row of an entry since it was loaded.
Disturbed(e, entry) ==
    LET l == LoadOf(e, entry.ref)
    IN  IsLoaded(e, entry.ref) /\ l.id # None /\ tables[e][l.id] # l.row

SharesNoReference(doc) ==
    \A e, f \in Entities : \A r \in doc.rows[e], s \in doc.rows[f] : r.ref = s.ref => e = f

\* After the import of a token, row i is what the entry says: its connection,
\* settings or source, unless the row keeps its own, and its policy.
Restores(token, e, i, entry) ==
    LET row == tables'[e][i]
    IN  /\ row # None /\ row.name = entry.name
        /\ RowAction(token.plan, e, entry.ref) = "create" =>
               row.by = <<token.number, e, entry.ref>>
        /\ \/ row.value = entry.value
           \/ entry.reenterUrl /\ tables[e][i] # None /\ row.value = tables[e][i].value
        /\ row.secret = None
        /\ e = "Playlist" => row.policy.keep = entry.policy.keep /\ ~row.policy.enabled

\* What an export holds and an import overwrites or creates is what it was: every
\* row of the document that nobody edits in the middle comes back, and every
\* assignment joins the rows its references mean, unless the document gives one
\* reference to rows of two kinds.
ImportRestoresTheExport ==
    [][writing # None /\ writing' = None /\ clock' # clock /\ writing.mode # "skip" =>
          /\ \A e \in Entities : \A entry \in writing.doc.rows[e] :
                 Disturbed(e, entry) \/ \E i \in Ids : Restores(writing, e, i, entry)
          /\ SharesNoReference(writing.doc) => \A l \in writing.doc.links :
                 LET p == Entry(writing.doc, "Playlist", l.playlist)
                     q == Entry(writing.doc, "Profile", l.profile)
                     s == Entry(writing.doc, "Storage", l.storage)
                 IN  \/ Disturbed("Playlist", p) \/ Disturbed("Profile", q)
                     \/ Disturbed("Storage", s)
                     \/ \E i, j \in Ids :
                           /\ Restores(writing, "Playlist", i, p)
                           /\ Restores(writing, "Profile", j, q)
                           /\ links'[<<i, j>>] # None
                           /\ Restores(writing, "Storage", links'[<<i, j>>].storage, s)]_importVars

=============================================================================
