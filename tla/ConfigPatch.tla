----------------------------- MODULE ConfigPatch ------------------------------
(***************************************************************************)
(* The save of the console's form: configApply (console/config.go) keeps   *)
(* the paths its recipe declares, turns blank values into removals, and    *)
(* PatchYAML (config/patch.go) sets and removes them in the document, a    *)
(* path at a time, the values in the order Go's map iteration happens to   *)
(* take.  A document is the set of its nodes: a function from paths, which *)
(* are sequences of keys, to "map" or to a value.                          *)
(***************************************************************************)
EXTENDS Integers, Sequences, FiniteSets

CONSTANTS
  PatDocuments,  \* documents of the file before the save
  PatRecipes,    \* each the set of paths a recipe may write
  PatForms       \* what the form sends: [values, reset], a function and a sequence of paths

VARIABLES
  patDoc,    \* the document being patched
  patOld,    \* history: the document as it was read
  patTodo,   \* [values, reset]: what is left to do
  patAsk,    \* history: [values, reset, recipe] as filtered
  patPhase   \* "idle", "patch", "done" or "failed"

patVars == <<patDoc, patOld, patTodo, patAsk, patPhase>>

NoEdit == [values |-> <<>>, reset |-> <<>>]

PatInit ==
  /\ patDoc \in PatDocuments /\ patOld = patDoc
  /\ patTodo = NoEdit /\ patAsk = [values |-> <<>>, reset |-> {}, recipe |-> {}]
  /\ patPhase = "idle"

-----------------------------------------------------------------------------
(* The filter of the form. *)

Blank(value) == value \in {"", "[]", "{}"}

PatKeep(values, keep) == [p \in DOMAIN values \cap keep |-> values[p]]

\* Values of other recipes are dropped; a blank one means the key's default, and is removed.
PatFilter(form, recipe) ==
  LET mine == DOMAIN form.values \cap recipe
      blank == {p \in mine : Blank(form.values[p])}
      Mine(path) == path \in recipe
  IN [values |-> PatKeep(form.values, mine \ blank),
      reset  |-> {form.reset[i] : i \in {k \in DOMAIN form.reset : Mine(form.reset[k])}}
                 \union blank]

PatAsks ==
  /\ patPhase = "idle"
  /\ \E form \in PatForms, recipe \in PatRecipes :
       LET kept == PatFilter(form, recipe) IN
       /\ patTodo' = kept
       /\ patAsk' = [values |-> kept.values, reset |-> kept.reset, recipe |-> recipe]
  /\ patPhase' = "patch"
  /\ UNCHANGED <<patDoc, patOld>>

-----------------------------------------------------------------------------
(* PatchYAML. *)

PatPrefixes(path) == {SubSeq(path, 1, n) : n \in 1..Len(path)}
PatParents(path) == PatPrefixes(path) \ {path}
PatUnder(doc, path) == {p \in DOMAIN doc : path \in PatPrefixes(p)}

Blocked(doc, path) == \E p \in PatParents(path) : p \in DOMAIN doc /\ doc[p] # "map"

\* setYAMLPath: a value replaces what was there, whole; missing parents become mappings.
SetPath(doc, path, value) ==
  [p \in (DOMAIN doc \ PatUnder(doc, path)) \union PatPrefixes(path) |->
     IF p = path THEN value
     ELSE IF p \in PatPrefixes(path) THEN "map"
     ELSE doc[p]]

CutPath(doc, path) == [p \in DOMAIN doc \ PatUnder(doc, path) |-> doc[p]]

\* The key alone goes (mutant).
DropLeaf(doc, path) == IF Blocked(doc, path) THEN doc ELSE CutPath(doc, path)

\* removeYAMLPath: what is not there, or not under mappings, is left alone; the mappings it
\* passes on its way that are then empty go with it, the ones that already were included.
DropPath(doc, path) ==
  LET left == CutPath(doc, path)
      passed == {p \in PatParents(path) \cap DOMAIN left : left[p] = "map"}
      emptied == {p \in passed : PatUnder(left, p) \subseteq passed}
  IN [p \in DOMAIN left \ emptied |-> left[p]]

PatSet ==
  /\ patPhase = "patch" /\ DOMAIN patTodo.values # {}
  /\ \E path \in DOMAIN patTodo.values :
       IF Blocked(patDoc, path)
       THEN patPhase' = "failed" /\ UNCHANGED <<patDoc, patTodo>>
       ELSE /\ patDoc' = SetPath(patDoc, path, patTodo.values[path])
            /\ patTodo' = [patTodo EXCEPT !.values = PatKeep(@, DOMAIN @ \ {path})]
            /\ UNCHANGED patPhase
  /\ UNCHANGED <<patOld, patAsk>>

\* In any order: the form's removals come in its own, those of the blank values in the map's.
PatReset ==
  /\ patPhase = "patch" /\ DOMAIN patTodo.values = {} /\ patTodo.reset # {}
  /\ \E path \in patTodo.reset :
       /\ patDoc' = DropPath(patDoc, path)
       /\ patTodo' = [patTodo EXCEPT !.reset = @ \ {path}]
  /\ UNCHANGED <<patOld, patAsk, patPhase>>

\* The text goes to the store's Write, which validates it.
PatDone ==
  /\ patPhase = "patch" /\ DOMAIN patTodo.values = {} /\ patTodo.reset = {}
  /\ patPhase' = "done"
  /\ UNCHANGED <<patDoc, patOld, patTodo, patAsk>>

PatNext == PatAsks \/ PatSet \/ PatReset \/ PatDone

PatSpec == PatInit /\ [][PatNext]_patVars

-----------------------------------------------------------------------------
(* Properties. *)

PatLeaves(doc) == {p \in DOMAIN doc : doc[p] # "map"}

\* "rewrites the dotted paths in values and removes the paths in reset, leaving every other key
\* ... untouched", and "a mapping emptied by a reset is pruned": in whatever order the paths are
\* taken, a saved document differs from the one read in the paths of the recipe alone, says what
\* the form said, and has no mapping emptied by the save.
FormWritesItsRecipe ==
  patPhase = "done" =>
    LET touched == DOMAIN patAsk.values \union patAsk.reset
        Under(p) == PatPrefixes(p) \cap touched # {}
    IN
    /\ touched \subseteq patAsk.recipe
    /\ \A p \in DOMAIN patAsk.values \ patAsk.reset :
         p \in DOMAIN patDoc /\ patDoc[p] = patAsk.values[p]
    /\ \A p \in patAsk.reset : p \in DOMAIN patDoc => Blocked(patOld, p)
    /\ \A p \in PatLeaves(patOld) : ~Under(p) => p \in DOMAIN patDoc /\ patDoc[p] = patOld[p]
    /\ \A p \in PatLeaves(patDoc) : ~Under(p) => p \in PatLeaves(patOld)
    /\ \A p \in DOMAIN patDoc \ PatLeaves(patDoc) :
         PatUnder(patDoc, p) = {p} => p \in DOMAIN patOld /\ PatUnder(patOld, p) = {p}
=============================================================================
