--------------------------- MODULE PromptTemplates ---------------------------
(***************************************************************************)
(* The versions of the prompt templates: save_template and                 *)
(* activate_template of the dashboard, concurrently, over the table and    *)
(* its partial unique index on is_active.                                  *)
(*                                                                         *)
(* A handler reads twice and keeps what it read first (the ORM session's   *)
(* identity map); its flush updates the changed rows in the order of their *)
(* random ids, and the index is checked after each of them.                *)
(***************************************************************************)
EXTENDS Naturals, Sequences, FiniteSets, FiniteSetsExt

CONSTANTS
    Editors,   \* dashboard requests in progress at once
    Main,      \* "linkedin_post", the name the transform node asks for
    Names,     \* template names used in the dashboard
    MaxRows    \* bound: templates saved

ASSUME NamesAssumption == Main \in Names
ASSUME RowsAssumption == MaxRows \in Nat \ {0}

VARIABLES
    templates,  \* prompt_templates, in the order of insertion
    edit,       \* the requests
    clashed,    \* history: a request committed on top of another's commit
    refused     \* history: why requests that were alone were refused

templateVars == <<templates, edit, clashed, refused>>

\* rank orders the random primary keys.
Template == [name : Names, version : 1 .. MaxRows, rank : 1 .. MaxRows, active : BOOLEAN]
Rows == DOMAIN templates

\* known: is_active of the rows in the session, as first read; clash: another
\* request committed since this one began.
NoEdit == [pc |-> "idle", op |-> "save", name |-> Main, target |-> 0,
           version |-> 0, known |-> <<>>, clash |-> FALSE]

TemplatesTypeOK ==
    /\ templates \in Seq(Template)
    /\ \A e \in Editors :
         /\ edit[e].pc \in {"idle", "read", "flush"} /\ edit[e].op \in {"save", "activate"}
         /\ edit[e].name \in Names /\ edit[e].target \in Rows \cup {0}
         /\ edit[e].version \in 0 .. MaxRows + 1 /\ edit[e].clash \in BOOLEAN
         /\ DOMAIN edit[e].known \subseteq Rows
    /\ clashed \in BOOLEAN
    /\ refused \subseteq {"other name", "order of ids", "other"}

\* seed_prompt_template.py has inserted the first version.
TemplatesInit ==
    /\ \E k \in 1 .. MaxRows :
         templates = <<[name |-> Main, version |-> 1, rank |-> k, active |-> TRUE]>>
    /\ edit = [e \in Editors |-> NoEdit]
    /\ clashed = FALSE
    /\ refused = {}

-----------------------------------------------------------------------------
ActiveRows == {i \in Rows : templates[i].active}
Named(n)   == {i \in Rows : templates[i].name = n}
Read(S)    == [i \in S |-> templates[i].active]

\* Mutant: the version follows that of the active template.
MutLatest(n) == Max({templates[i].version : i \in Named(n) \cap ActiveRows} \cup {0})

\* The version of the latest row of that name, 0 if there is none.
Latest(n) == Max({templates[i].version : i \in Named(n)} \cup {0})

SetEdit(e, c) == edit' = [edit EXCEPT ![e] = c]

\* save_template: SELECT the latest version.
SaveTemplate(e, n) ==
    /\ edit[e].pc = "idle" /\ Len(templates) < MaxRows
    /\ \E k \in {S \in SUBSET Named(n) : Cardinality(S) <= 1} :
         /\ \A i \in k : templates[i].version = Latest(n)
         /\ k = {} => Named(n) = {}
         /\ SetEdit(e, [NoEdit EXCEPT !.pc = "read", !.name = n,
                          !.version = Latest(n) + 1, !.known = Read(k)])
    /\ UNCHANGED <<templates, clashed, refused>>

\* activate_template: SELECT the row.
ActivateTemplate(e, i) ==
    /\ edit[e].pc = "idle"
    /\ SetEdit(e, [NoEdit EXCEPT !.pc = "read", !.op = "activate",
                     !.name = templates[i].name, !.target = i, !.known = Read({i})])
    /\ UNCHANGED <<templates, clashed, refused>>

\* Mutant: only the row read first is looked at.
MutReadVersions(e) ==
    /\ edit[e].pc = "read"
    /\ SetEdit(e, [edit[e] EXCEPT !.pc = "flush"])
    /\ UNCHANGED <<templates, clashed, refused>>

\* Both: SELECT every row of the name; rows already in the session keep what
\* they had.
ReadVersions(e) ==
    /\ edit[e].pc = "read"
    /\ LET old == edit[e].known
       IN  SetEdit(e, [edit[e] EXCEPT !.pc = "flush",
              !.known = [i \in Named(edit[e].name) \cup DOMAIN old |->
                            IF i \in DOMAIN old THEN old[i] ELSE templates[i].active]])
    /\ UNCHANGED <<templates, clashed, refused>>

\* The UPDATEs of the flush: rows known to be active, except the target, are
\* switched off; the target is switched on if it was not known to be.
SwitchedOff(e) == {i \in DOMAIN edit[e].known : edit[e].known[i] /\ i # edit[e].target}
\* Mutant: activating only switches the others off.
MutSwitchedOn(e) == {i \in DOMAIN edit[e].known : edit[e].op = "none"}

SwitchedOn(e)  == {i \in DOMAIN edit[e].known : ~edit[e].known[i] /\ i = edit[e].target}

After(e) ==
    [i \in Rows |-> [templates[i] EXCEPT !.active =
        (templates[i].active /\ i \notin SwitchedOff(e)) \/ i \in SwitchedOn(e)]]

\* The index refuses the row that becomes active while another is: the UPDATEs
\* run in the order of the ids, the INSERT of a new version after them all.
IndexRefuses(e) ==
    \/ /\ edit[e].op = "save"
       /\ ActiveRows \ SwitchedOff(e) # {}
    \/ \E i \in SwitchedOn(e), j \in ActiveRows :
         /\ j # i
         /\ j \notin SwitchedOff(e) \/ templates[j].rank > templates[i].rank

\* Other requests in progress now work on what has changed.
Others(e) ==
    [d \in Editors |-> IF d = e \/ edit[d].pc = "idle" THEN edit[d]
                       ELSE [edit[d] EXCEPT !.clash = TRUE]]

\* Mutant: the version is counted up once more.
MutInserted(e, k) ==
    IF edit[e].op = "activate" THEN <<>>
    ELSE <<[name |-> edit[e].name, version |-> edit[e].version + 1, rank |-> k, active |-> TRUE]>>

Inserted(e, k) ==
    IF edit[e].op = "activate" THEN <<>>
    ELSE <<[name |-> edit[e].name, version |-> edit[e].version, rank |-> k, active |-> TRUE]>>

Commit(e) ==
    /\ edit[e].pc = "flush" /\ ~IndexRefuses(e)
    /\ edit[e].op = "save" => Len(templates) < MaxRows
    /\ \E k \in 1 .. MaxRows :
         /\ edit[e].op = "activate" => k = 1
         /\ edit[e].op = "save" => \A i \in Rows : templates[i].rank # k
         /\ templates' = After(e) \o Inserted(e, k)
    /\ edit' = [Others(e) EXCEPT ![e] = NoEdit]
    /\ clashed' = (clashed \/ edit[e].clash)
    /\ UNCHANGED refused

\* What stood in the way of request e.
Reason(e) ==
    IF \E i \in ActiveRows : templates[i].name # edit[e].name THEN "other name"
    ELSE IF \E i \in SwitchedOn(e) : \A j \in ActiveRows : templates[i].rank < templates[j].rank
    THEN "order of ids" ELSE "other"

\* IntegrityError: rolled back, answered with 500.
Refuse(e) ==
    /\ edit[e].pc = "flush" /\ IndexRefuses(e)
    /\ SetEdit(e, NoEdit)
    /\ refused' = IF edit[e].clash THEN refused ELSE refused \cup {Reason(e)}
    /\ UNCHANGED <<templates, clashed>>

EditTemplates ==
    \E e \in Editors :
        \/ \E n \in Names : SaveTemplate(e, n)
        \/ \E i \in Rows : ActivateTemplate(e, i)
        \/ ReadVersions(e) \/ Commit(e) \/ Refuse(e)

TemplatesSpec == TemplatesInit /\ [][EditTemplates]_templateVars

-----------------------------------------------------------------------------
(* Properties *)

\* There is exactly one active template and the transform node finds it, unless
\* two edits overlapped; two overlapping activations can leave none.
ActiveUnlessClash ==
    clashed \/ \E i \in Rows : ActiveRows = {i} /\ templates[i].name = Main

\* Version numbers of a name are distinct unless two saves overlapped: the
\* table has no constraint on them.
VersionsUnlessClash ==
    clashed \/ \A i, j \in Rows :
        templates[i].name = templates[j].name /\ templates[i].version = templates[j].version => i = j

\* An edit that nobody disturbed is refused for two reasons only: a template
\* of another name is the active one, or the version to roll back to has an id
\* that sorts before the active one's, so that it is switched on first.
RefusalsExplained == "other" \notin refused

=============================================================================
