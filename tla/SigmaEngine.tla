----------------------------- MODULE SigmaEngine -----------------------------
(***************************************************************************)
(* The Sigma rules of threat_intel/sigma_engine.py: SigmaRuleLoader,       *)
(* SigmaEventMatcher and the hot reload of SigmaRuleManager.               *)
(*                                                                         *)
(* A rule file is a model value whose parsed content is given by Content.  *)
(* Files are edited by others, also while a reload reads them one by one,  *)
(* and time goes by meanwhile.  The conditions of a rule are kept as the   *)
(* forms that _evaluate_condition tells apart.                             *)
(***************************************************************************)
EXTENDS Naturals, Sequences, SequencesExt, FiniteSets, FiniteSetsExt, Functions

CONSTANTS
  Paths,        \* the files under SIGMA_RULES_DIR
  Contents,     \* what a file may hold, a name of DOMAIN RuleIn or "unreadable"
  RuleIn,       \* content -> [id, level, order, selectors, condition]
  Events,       \* event -> [field -> value]
  Fits,         \* the triples <<modifier, pattern, value>> that match
  Occurs,       \* the pairs of selector names, the first inside the second
  LowerCase,    \* the selector names written in lower case
  ReloadAfter,  \* 60 seconds
  MaxLoad,      \* seconds that a reload takes at most
  StatsCap,     \* bound of this model: where a counter stops
  LastSecond    \* bound of this model: the last second

ASSUME SigmaAssumption ==
  /\ ReloadAfter \in Nat \ {0} /\ MaxLoad \in Nat
  /\ LastSecond \in Nat /\ LastSecond > ReloadAfter
  /\ "" \notin Contents

VARIABLES
  clock,
  dir,         \* does SIGMA_RULES_DIR exist?
  disk,        \* path -> [content, since], absent paths missing
  sigmaRules,  \* _rules: the contents loaded
  loadedAt,    \* _loaded_at, 0 before the first load
  sigmaStats,  \* _stats: matches counted for each id
  check        \* check_event in progress: [phase, event, began,
               \* todo, found, matched, raised]

sigmaVars == <<clock, dir, disk, sigmaRules, loadedAt, sigmaStats, check>>

-----------------------------------------------------------------------------
(* _match_field: an event without the field, or with an empty value, has   *)
(* the value "".  A modifier the engine does not know (gte, lte) compares  *)
(* like none at all.                                                       *)
KnownModifiers == {"contains", "startswith", "endswith", "re", "cidr"}

MatchField(e, f) ==
  LET value == IF f.field \in DOMAIN Events[e] THEN Events[e][f.field] ELSE ""
      modifier == IF f.modifier \in KnownModifiers THEN f.modifier ELSE "wildcard"
  IN  \E p \in f.patterns : <<modifier, p, value>> \in Fits

(* _evaluate_selector: a list is a choice of mappings, a mapping is met    *)
(* with all its fields; a bare keyword is sought in the whole event.       *)
EvaluateSelector(e, selector) ==
  \E alternative \in selector :
    \A f \in alternative :
      IF f.field = "keyword" THEN \E x \in DOMAIN Events[e] :
                                    \E p \in f.patterns : <<"contains", p, Events[e][x]>> \in Fits
      ELSE MatchField(e, f)

Results(e, r) == [n \in ToSet(r.order) |-> EvaluateSelector(e, r.selectors[n])]

(* The names are replaced in the text of the condition one after another,  *)
(* in the order of the detection: a name that was in another one spoils    *)
(* it, and a name in capitals is not found in the lowered condition.       *)
Legible(name, order) ==
  /\ name \in LowerCase
  /\ \A i, j \in DOMAIN order :
       <<order[i], order[j]>> \in Occurs /\ order[j] = name => j < i

(* An expression is given as its disjuncts, sets of names with their sign. *)
Truth(expr, results) == \E clause \in expr : \A l \in clause : results[l.name] = l.positive

Chosen(condition, results) ==
  {n \in DOMAIN results : condition.subset = {"them"} \/ n \in condition.subset}

(* _evaluate_condition.  "rest": more text follows the "of": the subset is *)
(* then the rest of the text, which no name begins with, so that "any" is  *)
(* met by nothing and "all" by everything.  "broken": what Python cannot   *)
(* evaluate, such as a parenthesis before "1 of".                          *)
EvaluateCondition(condition, results, order) ==
  CASE condition.form = "all" ->
         condition.rest \/ \A n \in Chosen(condition, results) : results[n]
    [] condition.form = "any" ->
         ~condition.rest /\ \E n \in Chosen(condition, results) : results[n]
    [] condition.form = "expression" ->
         /\ \A l \in UNION condition.expr : Legible(l.name, order)
         /\ Truth(condition.expr, results)
    [] OTHER -> FALSE

(* match_event                                                             *)
MatchEvent(e, r) ==
  r.order # <<>> /\ EvaluateCondition(r.condition, Results(e, r), r.order)

(* A condition that is a list has no lower(): the check raises.            *)
Raises(r) == r.condition.form = "list"

-----------------------------------------------------------------------------
NoCheck == [phase |-> "none", event |-> "", began |-> 0, todo |-> {}, found |-> {},
            matched |-> {}, raised |-> FALSE]

LoadFile(p) == IF disk[p].content \in DOMAIN RuleIn THEN {disk[p].content} ELSE {}

(* The constructor loads what is there; without the directory _loaded_at   *)
(* stays 0, which is long ago.                                             *)
SigmaInit ==
  /\ clock = ReloadAfter + 1
  /\ dir \in BOOLEAN
  /\ disk \in UNION {[P -> [content : Contents, since : {0}]] : P \in SUBSET Paths}
  /\ ~dir => disk = <<>>
  /\ sigmaRules = UNION {LoadFile(p) : p \in DOMAIN disk}
  /\ loadedAt = IF dir THEN clock ELSE 0
  /\ sigmaStats = [id \in {RuleIn[c].id : c \in DOMAIN RuleIn} |-> 0]
  /\ check = NoCheck

Second ==
  /\ clock < LastSecond
  /\ check.phase = "loading" => clock < check.began + MaxLoad
  /\ clock' = clock + 1
  /\ UNCHANGED <<dir, disk, sigmaRules, loadedAt, sigmaStats, check>>

EditFile(p, c) ==
  /\ IF p \in DOMAIN disk THEN disk[p].content # c ELSE TRUE
  /\ dir' = TRUE
  /\ disk' = [q \in DOMAIN disk \cup {p} |->
                IF q = p THEN [content |-> c, since |-> clock] ELSE disk[q]]
  /\ UNCHANGED <<clock, sigmaRules, loadedAt, sigmaStats, check>>

RemoveFile(p) ==
  /\ p \in DOMAIN disk
  /\ disk' = Restrict(disk, DOMAIN disk \ {p})
  /\ UNCHANGED <<clock, dir, sigmaRules, loadedAt, sigmaStats, check>>

RemoveDirectory ==
  /\ dir
  /\ dir' = FALSE /\ disk' = <<>>
  /\ UNCHANGED <<clock, sigmaRules, loadedAt, sigmaStats, check>>

(* Mutant: the rules are loaded when there are none.                       *)
NeverLoaded == loadedAt = 0

Overdue == clock - loadedAt > ReloadAfter

(* check_event: reload when the rules are old; the glob lists the files    *)
(* first, and reads them in any order.                                     *)
StartCheck(e) ==
  /\ check.phase = "none"
  /\ LET begun == [NoCheck EXCEPT !.event = e, !.began = clock]
     IN  check' = IF Overdue /\ dir
                  THEN [begun EXCEPT !.phase = "loading", !.todo = DOMAIN disk]
                  ELSE [begun EXCEPT !.phase = "matching"]
  /\ UNCHANGED <<clock, dir, disk, sigmaRules, loadedAt, sigmaStats>>

(* A file that is gone or cannot be parsed is logged and skipped.          *)
ReadFile(p) ==
  /\ check.phase = "loading" /\ p \in check.todo
  /\ check' = [check EXCEPT !.todo = @ \ {p},
                            !.found = @ \cup (IF p \in DOMAIN disk THEN LoadFile(p) ELSE {})]
  /\ UNCHANGED <<clock, dir, disk, sigmaRules, loadedAt, sigmaStats>>

EndReload ==
  /\ check.phase = "loading" /\ check.todo = {}
  /\ sigmaRules' = check.found
  /\ loadedAt' = clock
  /\ check' = [check EXCEPT !.phase = "matching", !.found = {}]
  /\ UNCHANGED <<clock, dir, disk, sigmaStats>>

(* The rules are tried in some order; one that raises ends the check, and  *)
(* those before it have been counted.                                      *)
MatchRules ==
  /\ check.phase = "matching"
  /\ LET bad == {c \in sigmaRules : Raises(RuleIn[c])}
     IN  \E tried \in IF bad = {} THEN {sigmaRules} ELSE SUBSET (sigmaRules \ bad) :
           LET hits == {c \in tried : MatchEvent(check.event, RuleIn[c])}
               count(id) == Cardinality({c \in hits : RuleIn[c].id = id})
               counted(id) == Min({sigmaStats[id] + count(id), StatsCap})
           IN  /\ sigmaStats' = [id \in DOMAIN sigmaStats |-> counted(id)]
               /\ check' = [check EXCEPT !.phase = "done", !.raised = bad # {},
                                         !.matched = IF bad = {} THEN hits ELSE {}]
  /\ UNCHANGED <<clock, dir, disk, sigmaRules, loadedAt>>

Report ==
  /\ check.phase = "done"
  /\ check' = NoCheck
  /\ UNCHANGED <<clock, dir, disk, sigmaRules, loadedAt, sigmaStats>>

SigmaNext ==
  \/ Second
  \/ \E p \in Paths, c \in Contents : EditFile(p, c)
  \/ \E p \in Paths : RemoveFile(p) \/ ReadFile(p)
  \/ RemoveDirectory
  \/ \E e \in DOMAIN Events : StartCheck(e)
  \/ EndReload
  \/ MatchRules
  \/ Report

SigmaSpec == SigmaInit /\ [][SigmaNext]_sigmaVars

-----------------------------------------------------------------------------
SigmaTypeOK ==
  /\ clock \in 0..LastSecond /\ loadedAt \in 0..clock /\ check.began \in 0..clock
  /\ sigmaRules \cup check.found \cup check.matched \subseteq DOMAIN RuleIn
  /\ check.todo \subseteq Paths
  /\ check.phase \in {"none", "loading", "matching", "done"}

(* However the files are edited, also under a reload, a check that returns *)
(* has tried every rule that had been on disk, when the check began, for   *)
(* longer than the reload interval and the time that a reload takes, and   *)
(* reports those of them whose condition holds of the event (check_event,  *)
(* _reload).                                                               *)
RecentRulesApply ==
  check.phase = "done" /\ ~check.raised =>
    \A p \in DOMAIN disk :
      /\ check.began - disk[p].since > ReloadAfter + MaxLoad
      /\ disk[p].content \in DOMAIN RuleIn
      => (disk[p].content \in check.matched
            <=> MatchEvent(check.event, RuleIn[disk[p].content]))

(* Both, as the runs check them.                                           *)
SigmaSound == SigmaTypeOK /\ RecentRulesApply
=============================================================================
