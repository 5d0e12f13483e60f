------------------------------ MODULE YaraEngine ------------------------------
(***************************************************************************)
(* The YARA engine of threat_intel/yara_engine.py: YaraEngine, its reload  *)
(* thread and get_yara_engine.                                             *)
(*                                                                         *)
(* A rule is [name, wants, upper]: the strings it needs, and those among   *)
(* them that hold capitals and are not "nocase".  The rule files are       *)
(* edited by others while the thread reads them.  yara-python 4.5.1 is     *)
(* external: one file that does not compile fails the whole compilation.   *)
(***************************************************************************)
EXTENDS Naturals, FiniteSets, FiniteSetsExt, Functions

CONSTANTS
  YaraFiles,    \* the .yar files under rules_dir
  NamespaceOf,  \* file -> the namespace of its stem
  Texts,        \* what a file holds: sets of rules; "broken" is one that
                \* does not compile
  Builtin,      \* BUILTIN_RULES_SOURCE, a set of rules
  Payloads,     \* the strings in a payload: a set of sets
  Scanners      \* threads that scan

ASSUME YaraAssumption ==
  /\ DOMAIN NamespaceOf = YaraFiles
  /\ \A r \in Builtin : r.upper \subseteq r.wants

VARIABLES
  yfiles,    \* file -> text, absent files missing
  engine,    \* _engine: is there one?
  active,    \* _rules: namespace -> text
  running,   \* _running
  reload,    \* the compilation under way: [phase, todo, sources]
  scan       \* each scanner's scan: [phase, kind, data, rules, result]

yaraVars == <<yfiles, engine, active, running, reload, scan>>

NoReload == [phase |-> "none", todo |-> {}, sources |-> <<>>]
NoScan == [phase |-> "none", kind |-> "bytes", data |-> {}, rules |-> <<>>, result |-> "none"]

-----------------------------------------------------------------------------
YaraInit ==
  /\ yfiles \in UNION {[F -> Texts] : F \in SUBSET YaraFiles}
  /\ engine = FALSE
  /\ active = <<>>
  /\ running = FALSE
  /\ reload = NoReload
  /\ scan = [s \in Scanners |-> NoScan]

WriteFile(f, text) ==
  /\ IF f \in DOMAIN yfiles THEN yfiles[f] # text ELSE TRUE
  /\ yfiles' = [g \in DOMAIN yfiles \cup {f} |-> IF g = f THEN text ELSE yfiles[g]]
  /\ UNCHANGED <<engine, active, running, reload, scan>>

DeleteFile(f) ==
  /\ f \in DOMAIN yfiles
  /\ yfiles' = Restrict(yfiles, DOMAIN yfiles \ {f})
  /\ UNCHANGED <<engine, active, running, reload, scan>>

-----------------------------------------------------------------------------
(* The first use makes the engine, which compiles at once; a later         *)
(* compilation is the thread's.                                           *)
BeginScan == [phase |-> "reading", todo |-> DOMAIN yfiles,
          sources |-> [n \in {"builtin"} |-> Builtin]]

GetEngine ==
  /\ ~engine /\ reload.phase = "none"
  /\ reload' = BeginScan
  /\ UNCHANGED <<yfiles, engine, active, running, scan>>

(* _auto_reload_loop                                                       *)
AutoReload ==
  /\ engine /\ running /\ reload.phase = "none"
  /\ reload' = BeginScan
  /\ UNCHANGED <<yfiles, engine, active, running, scan>>

(* _compile_rules: a file of the namespace of an earlier one, or named     *)
(* "builtin", takes its place; a file that cannot be read is left out.     *)
ReadRules(f) ==
  /\ reload.phase = "reading" /\ f \in reload.todo
  /\ reload' =
       IF f \in DOMAIN yfiles
         THEN [reload EXCEPT !.todo = @ \ {f},
                             !.sources = [n \in DOMAIN @ \cup {NamespaceOf[f]} |->
                                            IF n = NamespaceOf[f] THEN yfiles[f] ELSE @[n]]]
         ELSE [reload EXCEPT !.todo = @ \ {f}]
  /\ UNCHANGED <<yfiles, engine, active, running, scan>>

Compiles(sources) == \A n \in DOMAIN sources : \A r \in sources[n] : r.name # "broken"

(* Mutant: the namespaces that compile are taken over.                     *)
CompilesPartly(sources) == TRUE

Accepts(sources) == Compiles(sources)

(* yara.compile under the lock.  In the constructor an error leaves no     *)
(* engine behind, in the thread it leaves the old rules.                   *)
Compile ==
  /\ reload.phase = "reading" /\ reload.todo = {}
  /\ reload' = NoReload
  /\ IF Accepts(reload.sources)
       THEN /\ active' = reload.sources
            /\ engine' = TRUE
            /\ running' = (IF engine THEN running ELSE TRUE)
       ELSE UNCHANGED <<active, engine, running>>
  /\ UNCHANGED <<yfiles, scan>>

StopReload ==
  /\ running
  /\ running' = FALSE
  /\ UNCHANGED <<yfiles, engine, active, reload, scan>>

-----------------------------------------------------------------------------
(* scan_bytes, scan_url, scan_file and scan_dns take the rules under the   *)
(* lock; an empty payload is not scanned, a DNS name is lowered first.     *)
StartScan(s, kind, data) ==
  /\ engine /\ scan[s].phase = "none"
  /\ scan' = [scan EXCEPT ![s] = [phase |-> IF data = {} THEN "done" ELSE "matching",
                                  kind |-> kind, data |-> data,
                                  rules |-> active, result |-> "none"]]
  /\ UNCHANGED <<yfiles, engine, active, running, reload>>

RuleMatches(r, kind, data) == r.wants \subseteq (IF kind = "dns" THEN data \ r.upper ELSE data)

Matching(sc) ==
  {r \in UNION {sc.rules[n] : n \in DOMAIN sc.rules} : RuleMatches(r, sc.kind, sc.data)}

(* rules.match: a timeout or an error means no match.  A match with        *)
(* strings raises, because the matched strings of yara-python 4.3 and      *)
(* later have no `offset`.                                                 *)
EndScan(s) ==
  /\ scan[s].phase = "matching"
  /\ \E result \in {"none", IF Matching(scan[s]) = {} THEN "none"
                            ELSE IF \E r \in Matching(scan[s]) : r.wants # {} THEN "raised"
                            ELSE "matched"} :
       scan' = [scan EXCEPT ![s].phase = "done", ![s].result = result]
  /\ UNCHANGED <<yfiles, engine, active, running, reload>>

ScanSent(s) ==
  /\ scan[s].phase = "done"
  /\ scan' = [scan EXCEPT ![s] = NoScan]
  /\ UNCHANGED <<yfiles, engine, active, running, reload>>

YaraNext ==
  \/ \E f \in YaraFiles, text \in Texts : WriteFile(f, text)
  \/ \E f \in YaraFiles : DeleteFile(f) \/ ReadRules(f)
  \/ GetEngine
  \/ AutoReload
  \/ Compile
  \/ StopReload
  \/ \E s \in Scanners :
       \/ \E kind \in {"bytes", "dns"}, data \in Payloads : StartScan(s, kind, data)
       \/ EndScan(s)
       \/ ScanSent(s)

YaraSpec == YaraInit /\ [][YaraNext]_yaraVars

-----------------------------------------------------------------------------
YaraTypeOK ==
  /\ DOMAIN yfiles \subseteq YaraFiles
  /\ engine \in BOOLEAN /\ running \in BOOLEAN
  /\ reload.todo \subseteq YaraFiles

(* An engine that can be scanned with always has rules that compile, the   *)
(* built-in ones among them unless a file has their namespace, whatever    *)
(* the rule files are turned into; and a scan uses one such compilation to *)
(* its end, never a mixture of two (_compile_rules, scan_bytes).           *)
ScansUseWholeRules ==
  /\ engine => Compiles(active) /\ "builtin" \in DOMAIN active
  /\ ~engine => active = <<>> /\ ~running
  /\ "builtin" \notin Range(NamespaceOf) =>
       \A s \in Scanners : scan[s].phase = "matching" => scan[s].rules["builtin"] = Builtin
  /\ \A s \in Scanners : scan[s].phase = "matching" => Compiles(scan[s].rules)

(* Both, as the runs check them.                                           *)
YaraSound == YaraTypeOK /\ ScansUseWholeRules
=============================================================================
