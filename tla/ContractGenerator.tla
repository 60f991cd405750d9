-------------------------- MODULE ContractGenerator --------------------------
(***************************************************************************)
(* The contract generator, internal/contracts/codegen/generate.py: it      *)
(* collects the artifacts of the producers, compares their surface with    *)
(* the checked-in compatibility baseline, and writes (or, with --check,    *)
(* compares) the files one after the other.  Producers and generated files *)
(* are edited and runs are killed at any point in between.                 *)
(*                                                                         *)
(* A surface is what the comparison reads: JSON Schemas, each with root    *)
(* assertions, a version constant and properties, and parts (operations,   *)
(* components, field numbers, enum values, RPC methods) by key.            *)
(***************************************************************************)
EXTENDS Naturals, Sequences

CONSTANTS
  Runs,                \* invocations of the generator at one time
  Paths, Properties,   \* schema paths and property names
  Parts,               \* keys of the other compared maps
  ApprovedParts,       \* APPROVED_OPENAPI_COMPONENT_REPLACEMENTS
  InitialSurfaces,     \* what the producers may emit at first
  ReplacedPath,        \* the path of APPROVED_VERSIONED_SCHEMA_REPLACEMENTS
  Values,              \* what an assertion can say
  SchemaEdits,         \* bound: what an edit makes of a schema
  MaxEdits             \* bound: edits of producers and of generated files

ASSUME GeneratorAssumption ==
  /\ ApprovedParts \subseteq Parts
  /\ Values \subseteq Nat \ {0}
  /\ MaxEdits \in Nat

VARIABLES
  sources,     \* the surface the producers emit now
  files,       \* generated file -> content
  run,         \* run -> its local state
  editCount,
  published,   \* every surface the baseline file has ever held
  overlapped   \* two runs without --check were at work at once

generatorVars == <<sources, files, run, editCount, published, overlapped>>

Absent == 0

\* from and to of the approved versioned replacement.
OldVersion == 1
NewVersion == 2

Schema ==
  [root : Values, version : {OldVersion, NewVersion}, properties : [Properties -> Values \cup {Absent}]]
NoSchema ==
  [root |-> Absent, version |-> Absent, properties |-> [q \in Properties |-> Absent]]
Surface ==
  [schemas : [Paths -> Schema \cup {NoSchema}], parts : [Parts -> Values \cup {Absent}]]

ASSUME SurfaceAssumption ==
  InitialSurfaces \subseteq Surface /\ SchemaEdits \subseteq Schema \cup {NoSchema}

-----------------------------------------------------------------------------

\* Keys of a compared map that were removed or changed.
Altered(old, new) == {k \in DOMAIN old : old[k] # Absent /\ new[k] # old[k]}

\* Mutant: the replacement is approved whatever the versions say.
ReplacementByPath(p, old, new) == p = ReplacedPath

\* An approved versioned replacement of a schema whose assertions changed.
Replacement(p, old, new) ==
  p = ReplacedPath /\ old.version = OldVersion /\ new.version = NewVersion

BreaksSchema(p, old, new) ==
  \/ old.root # Absent /\ new.root = Absent
  \/ /\ old.root # Absent /\ new.root # Absent /\ old.root # new.root
     /\ ~Replacement(p, old, new)
  \/ /\ old.root # Absent /\ old.root = new.root
     /\ old.version # new.version \/ Altered(old.properties, new.properties) # {}

BreaksPart(k, old, new) ==
  /\ k \in Altered(old, new)
  /\ new[k] = Absent \/ k \notin ApprovedParts

\* _compare_compatibility: the breaking changes, and the others.
Breaking(old, new) ==
  {p \in Paths : BreaksSchema(p, old.schemas[p], new.schemas[p])}
  \cup {k \in Parts : BreaksPart(k, old.parts, new.parts)}

Changes(old, new) ==
  {p \in Paths : old.schemas[p] # new.schemas[p]} \cup
  {k \in Parts : old.parts[k] # new.parts[k]}

\* Generated files in the order they are written, by path; the manifest, a hash of all
\* the others, stands with the report before it, and every contract with the OpenAPI.
Files == <<"baseline", "report", "openapi">>
FileSet == {Files[i] : i \in DOMAIN Files}
FileAfter(f) ==
  Files[(CHOOSE i \in DOMAIN Files : Files[i] = f) + 1]
Missing == [kind |-> "missing"]

\* Mutant: a refreshed baseline is reported with the changes it absorbs.
RenderReportingRefresh(base, current, refresh) ==
  LET kept == IF refresh THEN current ELSE base IN
    [baseline |-> kept, openapi |-> current,
     report |-> [base |-> kept, current |-> current, changes |-> Changes(base, current)]]

\* render_compatibility_artifacts and collect_artifacts: every file's content.
Render(base, current, refresh) ==
  LET kept == IF refresh THEN current ELSE base IN
    [baseline |-> kept, openapi |-> current,
     report |-> [base |-> kept, current |-> current, changes |-> Changes(kept, current)]]

-----------------------------------------------------------------------------

\* A run's state: where it is, what it imported and rendered, what it found stale,
\* and whether anything it reads was changed by someone else meanwhile.
Idle == [at |-> "idle", check |-> FALSE, refresh |-> FALSE, imported |-> Missing, plan |-> Missing,
         stale |-> FALSE, disturbed |-> FALSE]

GeneratorInit ==
  /\ sources \in InitialSurfaces
  /\ files = [f \in FileSet |-> Missing]
  /\ run = [r \in Runs |-> Idle]
  /\ editCount = 0
  /\ published = {}
  /\ overlapped = FALSE

Working(r) == run[r].at \in {"imported"} \cup FileSet

\* What a change of the sources or the files is to a run: someone else's while it works,
\* and the end of what a finished run found.
Disturbed(r) ==
  IF Working(r) THEN [run[r] EXCEPT !.disturbed = TRUE] ELSE Idle

Begin(r, check, refresh) ==
  /\ ~Working(r)
  /\ ~(check /\ refresh)
  /\ run' = [run EXCEPT ![r] =
       [Idle EXCEPT !.at = "imported", !.check = check, !.refresh = refresh, !.imported = sources]]
  /\ overlapped' = (overlapped \/ (~check /\ \E s \in Runs : Working(s) /\ ~run[s].check))
  /\ UNCHANGED <<sources, files, editCount, published>>

\* The baseline file is read, compared with the imported surface, and the files rendered.
Compare(r) ==
  /\ run[r].at = "imported"
  /\ LET current == run[r].imported
         base == IF files["baseline"] = Missing THEN current ELSE files["baseline"]
     IN IF Breaking(base, current) # {}
          THEN run' = [run EXCEPT ![r] = Idle]
          ELSE run' = [run EXCEPT ![r].at = Files[1], ![r].imported = Missing,
                                  ![r].plan = Render(base, current, run[r].refresh)]
  /\ UNCHANGED <<sources, files, editCount, published, overlapped>>

\* What a run comes to after its last file; a disturbed run's verdict says nothing.
Verdict(r, stale) ==
  [Idle EXCEPT !.at = IF run[r].disturbed THEN "idle"
                      ELSE IF run[r].check /\ stale THEN "failed" ELSE "succeeded"]

\* One file is compared, and replaced unless this is a check.
Write(r) ==
  LET f == run[r].at
      differs == files[f] # run[r].plan[f]
      stale == run[r].stale \/ (run[r].check /\ differs)
      after == IF f = Files[Len(Files)] THEN Verdict(r, stale)
               ELSE [run[r] EXCEPT !.at = FileAfter(f), !.stale = stale]
  IN /\ f \in FileSet
     /\ IF differs /\ ~run[r].check
          THEN /\ files' = [files EXCEPT ![f] = run[r].plan[f]]
               /\ published' = published \cup (IF f = "baseline" THEN {run[r].plan[f]} ELSE {})
               /\ run' = [s \in Runs |-> IF s = r THEN after ELSE Disturbed(s)]
          ELSE /\ run' = [run EXCEPT ![r] = after]
               /\ UNCHANGED <<files, published>>
     /\ UNCHANGED <<sources, editCount, overlapped>>

\* A run is killed; the file it was writing is whole, the others are as they are.
Kill(r) ==
  /\ Working(r)
  /\ run' = [run EXCEPT ![r] = Idle]
  /\ UNCHANGED <<sources, files, editCount, published, overlapped>>

\* A producer is edited: one schema or one part says something else.
EditSources ==
  /\ editCount < MaxEdits
  /\ \/ \E p \in Paths, s \in SchemaEdits :
          sources' = [sources EXCEPT !.schemas[p] = s]
     \/ \E k \in Parts, v \in Values \cup {Absent} :
          sources' = [sources EXCEPT !.parts[k] = v]
  /\ sources' # sources
  /\ editCount' = editCount + 1
  /\ run' = [r \in Runs |-> Disturbed(r)]
  /\ UNCHANGED <<files, published, overlapped>>

\* A generated file other than the baseline is edited or lost.
EditFile(f) ==
  /\ editCount < MaxEdits
  /\ f # "baseline" /\ files[f] # Missing
  /\ files' = [files EXCEPT ![f] = Missing]
  /\ editCount' = editCount + 1
  /\ run' = [r \in Runs |-> Disturbed(r)]
  /\ UNCHANGED <<sources, published, overlapped>>

GeneratorNext ==
  \/ \E r \in Runs : \/ \E check, refresh \in BOOLEAN : Begin(r, check, refresh)
                     \/ Compare(r) \/ Write(r) \/ Kill(r)
  \/ EditSources
  \/ \E f \in FileSet : EditFile(f)

GeneratorSpec == GeneratorInit /\ [][GeneratorNext]_generatorVars

-----------------------------------------------------------------------------

\* The files say what the producers emit, under a baseline they are compatible with.
Consistent ==
  LET b == files["baseline"] IN
    /\ Missing \notin {files[f] : f \in FileSet}
    /\ files["openapi"] = sources
    /\ files["report"] = [base |-> b, current |-> sources, changes |-> Changes(b, sources)]
    /\ Breaking(b, sources) = {}

\* A run nobody disturbed leaves the files consistent, or with --check accepts them
\* exactly when they are (main, collect_artifacts).
GenerationConverges ==
  \A r \in Runs :
    /\ run[r].at = "succeeded" => Consistent
    /\ run[r].at = "failed" => ~Consistent

\* Whatever a baseline held is in the present one as it was, however often it was
\* refreshed: but for approved components, and for the one replacement of a schema by
\* its second version.  Overlapping writers lose that: one restores the baseline it
\* read over the other's refreshed one (the policy of render_compatibility_artifacts).
V1IsImmutable ==
  LET b == files["baseline"]
      Kept(old, new) ==
        old.root = new.root /\ old.version = new.version
        /\ \A q \in Properties : old.properties[q] \in {Absent, new.properties[q]}
  IN ~overlapped => \A s \in published :
       /\ \A k \in Parts : s.parts[k] # Absent =>
            b.parts[k] = s.parts[k] \/ (k \in ApprovedParts /\ b.parts[k] # Absent)
       /\ \A p \in Paths : s.schemas[p] # NoSchema =>
            \/ Kept(s.schemas[p], b.schemas[p])
            \/ /\ p = ReplacedPath
               /\ s.schemas[p].version = OldVersion /\ b.schemas[p].version = NewVersion

=============================================================================
