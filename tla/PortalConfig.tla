----------------------------- MODULE PortalConfig -----------------------------
(***************************************************************************)
(* The configuration the web portal edits (apps/web-portal/src/index.ts)   *)
(* and the page that does (static/app.js): settings, which are kept in an  *)
(* env file and in the environment of the process, and the list of         *)
(* language models among them.  The server reads the file, changes what it *)
(* read and writes it back in one step.  A page does not: it is filled by  *)
(* one request and saved by another, and to move a model it asks for the   *)
(* list and sends an order of it.                                          *)
(*                                                                         *)
(* A value is kept apart by what happens to it: a password in a URL is     *)
(* shown as a mask; a value with a blank, a quote, # or = is written as a  *)
(* JSON string, of which only the quotes' escapes are undone when it is    *)
(* read, so that each backslash comes back as two.                         *)
(***************************************************************************)
EXTENDS Naturals, SequencesExt

CONSTANTS
    Settings,      \* keys of a section of the configuration
    Secrets,       \* those with a sensitive field
    Texts,         \* of values, those of the masks among them
    Given,         \* per setting the values an administrator may type
    Pages,         \* pages of administrators
    ModelNames,
    Unset,
    MaxSlashes,    \* bound: doublings of a backslash
    MaxModels      \* bound: models ever added

\* A value: its text, whether a URL has its own password or a mask in its place,
\* whether it is written as a string, and its backslashes.
Values == [text : Texts, password : {"none", "own", "mask"}, special : BOOLEAN, slashes : Nat]

\* A language model: an id, made of its place or of the time, and a name.
LanguageModels == [id : [made : {"by place", "now"}, number : Nat], name : ModelNames]

Mask == [text |-> "****", password |-> "none", special |-> FALSE, slashes |-> 0]

\* The mask in a secret's field leaves the secret alone: nobody types it to set it.
ASSUME ConfigAssumption ==
    /\ Secrets \subseteq Settings
    /\ {"****", "********"} \subseteq Texts
    /\ Unset \notin Values /\ Unset \notin Seq(LanguageModels)
    /\ \A k \in Settings : Given[k] # {} /\ Given[k] \subseteq Values
    /\ \A k \in Secrets : Mask \notin Given[k]
    /\ MaxSlashes \in Nat /\ MaxModels \in Nat

VARIABLES
    file,       \* the settings as the env file has them written, or Unset
    process,    \* process.env
    form,       \* per page and setting the field: its value, and if it is old
    typed,      \* history: the value of a setting typed last
    overtaken,  \* history: settings saved from a form older than what was typed
    list,       \* LLM_MODELS of the file: models in their order, or Unset
    primary,    \* LITELLM_MODEL
    fallbacks,  \* LITELLM_FALLBACK_MODELS
    shown,      \* per page the list it shows
    order,      \* per page the order of a move between its two requests
    added, deleted,  \* history: models added and deleted
    dropped     \* history: models added while a move was between its requests

settingVars == <<file, process, form, typed, overtaken>>
modelVars   == <<list, primary, fallbacks, shown, order, added, deleted, dropped>>
configVars  == <<settingVars, modelVars>>

-----------------------------------------------------------------------------
(* Settings *)

\* loadEnvFile of what saveEnvFile wrote.
Reread(v) ==
    IF v # Unset /\ v.special /\ v.slashes > 0 THEN [v EXCEPT !.slashes = @ + 1] ELSE v

LoadedEnv == [k \in Settings |-> Reread(file[k])]

\* env[key] || process.env[key], what GET /api/admin/config starts from.
Effective(k) == IF LoadedEnv[k] # Unset THEN LoadedEnv[k] ELSE process[k]

\* redactConfigValue: any secret is eight stars, and the password of a URL is a mask.
Redacted(k) ==
    LET v == Effective(k)
    IN CASE v = Unset -> v
         [] v # Unset /\ k \in Secrets -> [Mask EXCEPT !.text = "********"]
         [] v # Unset /\ k \notin Secrets ->
              [v EXCEPT !.password = IF @ = "own" THEN "mask" ELSE @]

MutatedDisplayed(k) == Redacted(k)

\* renderConfigSection: the field of a secret that is set shows four stars.
Displayed(k) == IF k \in Secrets /\ Redacted(k) # Unset THEN Mask ELSE Redacted(k)

\* What the page sends, of which the server skips the mask of a secret again.
Sent(fields) == {k \in Settings : fields[k] # Unset /\ ~(k \in Secrets /\ fields[k] = Mask)}

OpenForm(p) ==
    /\ form' = [form EXCEPT ![p] = [k \in Settings |-> [value |-> Displayed(k), old |-> FALSE]]]
    /\ UNCHANGED <<file, process, typed, overtaken, modelVars>>

\* persistConfigEnv: settings the file does not have are taken from the
\* process; both have all of them afterwards.
Persist(env) ==
    LET exported == [k \in Settings |-> IF env[k] = Unset THEN process[k] ELSE env[k]]
    IN /\ \A k \in Settings : exported[k] # Unset => exported[k].slashes <= MaxSlashes
       /\ file' = exported
       /\ process' = exported

\* saveConfigSection: an administrator typed into some fields of the form and
\* saves it, the other fields with it.
SaveForm(p, edits) ==
    LET fields == [k \in Settings |-> IF k \in DOMAIN edits THEN edits[k] ELSE form[p][k].value]
        sent   == Sent(fields)
    IN /\ Persist([k \in Settings |-> IF k \in sent THEN fields[k] ELSE LoadedEnv[k]])
       /\ form' = [q \in Pages |-> [k \in Settings |->
             IF k \in DOMAIN edits THEN [value |-> IF q = p THEN edits[k] ELSE form[q][k].value,
                                         old |-> q # p]
             ELSE form[q][k]]]
       /\ typed' = [k \in Settings |-> IF k \in DOMAIN edits THEN edits[k] ELSE typed[k]]
       /\ overtaken' = (overtaken \cup {k \in sent : form[p][k].old}) \ DOMAIN edits
       /\ UNCHANGED modelVars

SaveSection(p) ==
    \/ SaveForm(p, [k \in {} |-> Unset])
    \/ \E k \in Settings : \E v \in Given[k] : SaveForm(p, [key \in {k} |-> v])

\* POST /api/admin/config/reload writes what it read, too.
ReloadConfig ==
    /\ Persist(LoadedEnv)
    /\ UNCHANGED <<form, typed, overtaken, modelVars>>

-----------------------------------------------------------------------------
(* Language models *)

Names(models) == [i \in DOMAIN models |-> models[i].name]

IdsOf(models) == {m.id : m \in ToSet(models)}

\* parseLlmModels: without a list, the models of the older settings, under
\* ids made of their places.
Models ==
    IF list # Unset /\ list # <<>> THEN list
    ELSE [i \in 1..(1 + Len(fallbacks)) |->
            [id |-> [made |-> "by place", number |-> i],
             name |-> IF i = 1 THEN primary ELSE fallbacks[i - 1]]]

\* persistLlmModels: the older settings follow the list.
PersistModels(models) ==
    /\ list' = models
    /\ primary' = IF models = <<>> THEN primary ELSE models[1].name
    /\ fallbacks' = IF models = <<>> THEN <<>> ELSE Names(Tail(models))

AddModel(name) ==
    /\ Cardinality(added) < MaxModels
    /\ LET model == [id |-> [made |-> "now", number |-> Cardinality(added)], name |-> name]
       IN /\ PersistModels(Append(Models, model))
          /\ added' = added \cup {model.id}
          /\ dropped' = IF \E p \in Pages : order[p] # <<>> THEN dropped \cup {model.id}
                        ELSE dropped
    /\ UNCHANGED <<shown, order, deleted, settingVars>>

\* loadLLMModels.
ShowModels(p) ==
    /\ shown' = [shown EXCEPT ![p] = Models]
    /\ UNCHANGED <<list, primary, fallbacks, order, added, deleted, dropped, settingVars>>

MutatedListed(p) == shown[p]

\* A page that moves a model asks for the list anew.
Listed(p) == Models

\* moveLLMModelUp and moveLLMModelDown, up to their second request: two
\* neighbours change places.
AskMove(p, i) ==
    /\ order[p] = <<>>
    /\ i < Len(Listed(p))
    /\ {Listed(p)[i].id, Listed(p)[i + 1].id} \cap IdsOf(shown[p]) # {}
    /\ order' = [order EXCEPT ![p] =
          [j \in DOMAIN Listed(p) |->
              Listed(p)[IF j = i THEN i + 1 ELSE IF j = i + 1 THEN i ELSE j].id]]
    /\ UNCHANGED <<list, primary, fallbacks, shown, added, deleted, dropped, settingVars>>

\* The elements of a sequence at some of its places, as filter leaves them.
Filtered(s, places) ==
    [n \in 1..Cardinality(places) |->
        s[CHOOSE i \in places : Cardinality({j \in places : j <= i}) = n]]

\* The models of an order that are there, in that order, and no others.
Reordered(ids) ==
    LET found == Filtered(ids, {i \in DOMAIN ids : ids[i] \in IdsOf(Models)})
    IN [i \in DOMAIN found |-> CHOOSE m \in ToSet(Models) : m.id = found[i]]

\* POST /api/admin/llm-models/reorder, refused when no model is left of it.
Reorder(p) ==
    /\ order[p] # <<>>
    /\ IF Reordered(order[p]) = <<>> THEN UNCHANGED <<list, primary, fallbacks>>
                                     ELSE PersistModels(Reordered(order[p]))
    /\ order' = [order EXCEPT ![p] = <<>>]
    /\ shown' = IF Reordered(order[p]) = <<>> THEN shown ELSE [shown EXCEPT ![p] = list']
    /\ UNCHANGED <<added, deleted, dropped, settingVars>>

\* A page offers to delete any model but the first it shows.
DeleteModel(p, i) ==
    /\ i \in 2..Len(shown[p])
    /\ LET id == shown[p][i].id
       IN /\ id \in IdsOf(Models)
          /\ PersistModels(Filtered(Models, {j \in DOMAIN Models : Models[j].id # id}))
          /\ deleted' = deleted \cup {id}
    /\ UNCHANGED <<shown, order, added, dropped, settingVars>>

-----------------------------------------------------------------------------
(* The configuration *)

\* No file yet, or one with every setting; the environment has values for all
\* but one setting, if any.
ConfigInit ==
    /\ process \in {[k \in Settings |-> IF k = unset THEN Unset ELSE CHOOSE v \in Given[k] : TRUE] :
                      unset \in Settings \cup {Unset}}
    /\ file \in {process, [k \in Settings |-> Unset]}
    /\ form = [p \in Pages |-> [k \in Settings |-> [value |-> Displayed(k), old |-> FALSE]]]
    /\ typed = [k \in Settings |-> Effective(k)]
    /\ overtaken = {}
    /\ list = Unset
    /\ primary \in ModelNames
    /\ fallbacks \in {<<>>, <<primary>>}
    /\ shown = [p \in Pages |-> Models]
    /\ order = [p \in Pages |-> <<>>]
    /\ added = {} /\ deleted = {} /\ dropped = {}

SettingsNext == ReloadConfig \/ \E p \in Pages : OpenForm(p) \/ SaveSection(p)

ModelsNext ==
    \/ \E name \in ModelNames : AddModel(name)
    \/ \E p \in Pages :
          \/ ShowModels(p) \/ Reorder(p)
          \/ \E i \in 1..Len(Models) : AskMove(p, i)
          \/ \E i \in 1..Len(shown[p]) : DeleteModel(p, i)

ConfigNext == SettingsNext \/ ModelsNext

ConfigSpec == ConfigInit /\ [][ConfigNext]_configVars

-----------------------------------------------------------------------------
(* Properties *)

\* A setting has the value that was typed last, whatever forms are saved after
\* it that were not older: but a password in a URL may have become its mask,
\* and backslashes in a value that is written as a string become more.
SettingsKept ==
    \A k \in Settings \ overtaken :
        LET v == Effective(k)
        IN IF typed[k] = Unset THEN v = Unset
           ELSE /\ v.text = typed[k].text
                /\ v.password \in {typed[k].password}
                      \cup (IF typed[k].password = "own" THEN {"mask"} ELSE {})
                /\ IF typed[k].special THEN v.slashes >= typed[k].slashes
                                       ELSE v.slashes = typed[k].slashes

\* A model that was added and not deleted is in the list, unless it was added
\* between the two requests of a move; one that was deleted is not, but for the
\* one the older settings make anew when the list became empty; and the older
\* settings, which other services read, say what the list says.
ModelsKept ==
    /\ added \ deleted \subseteq IdsOf(Models) \cup dropped
    /\ deleted \cap IdsOf(Models) \subseteq {[made |-> "by place", number |-> 1]}
    /\ primary = Models[1].name /\ fallbacks = Names(Tail(Models))

ConfigKept == SettingsKept /\ ModelsKept

===============================================================================
