------------------------------ MODULE RulesSync ------------------------------
(***************************************************************************)
(* hack/sync_prometheus_rules.py of kube-prometheus-stack: fetches files   *)
(* of alerting rules and makes a Helm template of every group in them.     *)
(* Into the text of a group go blocks {{- if }} ... {{- end }}, at         *)
(* positions that the insertions before have moved.                        *)
(*                                                                         *)
(* The text is a sequence of lines.  An alert stands for its own lines, a  *)
(* recording rule for its, and a block for labels has the three lines that *)
(* the script inserts.  The replacements of strings, the header and the    *)
(* footer do not depend on the rules, and are left out.                    *)
(***************************************************************************)
EXTENDS Naturals, Sequences, FiniteSets, SequencesExt

CONSTANTS
    ConditionMap,   \* the keys of alert_condition_map, in their order
    BeginsWith,     \* BeginsWith[a]: the keys with which alert a begins
    Offered,        \* Offered[i]: the groups that chart i may hold
    MaxSyncs        \* bound: runs of the script

ASSUME RulesAssumption ==
    /\ ConditionMap \in Seq(DOMAIN BeginsWith) /\ "" \notin Range(ConditionMap)
    /\ \A i, j \in DOMAIN ConditionMap : ConditionMap[i] = ConditionMap[j] => i = j
    /\ \A a \in DOMAIN BeginsWith : BeginsWith[a] \subseteq Range(ConditionMap)
    /\ \A a \in Range(ConditionMap) : a \in BeginsWith[a]
    /\ MaxSyncs \in Nat

VARIABLES
    chart,      \* the chart that is next, 0 between runs
    pending,    \* groups of the fetched chart that are not written yet
    templates,  \* the files: the lines of a group, and its rules
    syncs       \* runs so far

rulesVars == <<chart, pending, templates, syncs>>

-----------------------------------------------------------------------------
(* Lines.                                                                  *)
Alert(a)  == [line |-> "alert", of |-> a]
Recording == [line |-> "record", of |-> ""]
If(key)   == [line |-> "if", of |-> key]
EndIf     == [line |-> "end", of |-> ""]
Labels    == <<[line |-> "if", of |-> "labels"], [line |-> "labels", of |-> ""], EndIf>>

Rules  == {Alert(a) : a \in DOMAIN BeginsWith} \cup {Recording}
Groups == [name : STRING, rules : Seq(Rules)]

ASSUME ChartsAssumption == Offered \in Seq(SUBSET Seq(Groups))

Insert(s, i, t) == SubSeq(s, 1, i - 1) \o t \o SubSeq(s, i, Len(s))
Alerts(s) == {i \in DOMAIN s : s[i].line = "alert"}

(* add_custom_labels goes over the alerts of the rules as they were; each  *)
(* comes later by the blocks inserted before it.  The block of an alert    *)
(* goes in front of the next, and that of the last one to the end.         *)
LabelBefore(b, position) ==
    [rules |-> IF b.alert >= 1 THEN Insert(b.rules, position + Len(Labels) * (b.alert - 1), Labels)
                               ELSE b.rules,
     alert |-> b.alert + 1]

AddCustomLabels(rules) ==
    LET labelled == FoldLeftDomain(LAMBDA b, i : IF i \in Alerts(rules) THEN LabelBefore(b, i) ELSE b,
                                   [rules |-> rules, alert |-> 0], rules)
    IN  IF labelled.alert >= 1 THEN labelled.rules \o Labels ELSE labelled.rules

(* A key of alert_condition_map is looked up as the beginning of an alert, *)
(* and only the first such alert is wrapped, with all that stands between  *)
(* it and the next.  If that one is wrapped already, its {{- if }} stands  *)
(* there too, and is left outside.                                         *)
WrapToNext(rules, key) ==
    LET found == {i \in Alerts(rules) : key \in BeginsWith[rules[i].of]}
        index == Min(found)
        open  == Insert(rules, index, <<If(key)>>)
        next  == Min({Len(open) + 1} \cup {i \in Alerts(open) : i > index + 1})
    IN  IF found = {} THEN rules ELSE Insert(open, next, <<EndIf>>)

Wrap(rules, key) ==
    LET found == {i \in Alerts(rules) : key \in BeginsWith[rules[i].of]}
        index == Min(found)
        open  == Insert(rules, index, <<If(key)>>)
        next  == Min({Len(open) + 1} \cup {i \in Alerts(open) : i > index + 1})
        end   == Min({e \in index + 2 .. next : \A i \in e .. next - 1 : open[i].line = "if"})
    IN  IF found = {} THEN rules ELSE Insert(open, end, <<EndIf>>)

AddRulesConditions(rules) == FoldLeft(Wrap, rules, ConditionMap)

-----------------------------------------------------------------------------
(* The script is started.                                                  *)
BeginSync ==
    /\ chart = 0 /\ syncs < MaxSyncs
    /\ chart' = 1
    /\ pending' = <<>>
    /\ syncs' = syncs + 1
    /\ UNCHANGED templates

(* requests.get answers with status 200 ...                                *)
FetchChart(groups) ==
    /\ chart \in DOMAIN Offered /\ pending = <<>>
    /\ groups \in Offered[chart]
    /\ pending' = groups
    /\ chart' = chart + 1
    /\ UNCHANGED <<templates, syncs>>

(* ... or another one: this chart is passed over ...                       *)
SkipChart ==
    /\ chart \in DOMAIN Offered /\ pending = <<>>
    /\ chart' = chart + 1
    /\ UNCHANGED <<pending, templates, syncs>>

(* ... or not at all: the script ends with what it has written.            *)
SyncRaises ==
    /\ chart \in DOMAIN Offered /\ pending = <<>>
    /\ chart' = 0
    /\ UNCHANGED <<pending, templates, syncs>>

(* write_group_to_file; files of groups that no chart has any more stay.   *)
WriteGroup ==
    /\ pending # <<>>
    /\ LET group == Head(pending)
           lines == AddRulesConditions(AddCustomLabels(group.rules))
           file  == [name |-> group.name, rules |-> group.rules, lines |-> lines]
       IN  templates' = {t \in templates : t.name # group.name} \cup {file}
    /\ pending' = Tail(pending)
    /\ UNCHANGED <<chart, syncs>>

(* write_rules_names_template, the last step, does not look at the charts. *)
Finish ==
    /\ chart = Len(Offered) + 1 /\ pending = <<>>
    /\ chart' = 0
    /\ UNCHANGED <<pending, templates, syncs>>

RulesInit ==
    /\ chart = 0
    /\ pending = <<>>
    /\ templates = {}
    /\ syncs = 0

RulesNext ==
    \/ BeginSync \/ SkipChart \/ SyncRaises \/ WriteGroup \/ Finish
    \/ \E i \in DOMAIN Offered : \E groups \in Offered[i] : i = chart /\ FetchChart(groups)

RulesSpec == RulesInit /\ [][RulesNext]_rulesVars

-----------------------------------------------------------------------------
(* Properties.                                                             *)

RulesTypeOK ==
    /\ chart \in 0 .. Len(Offered) + 1
    /\ \A t \in templates : Range(t.rules) \subseteq Range(t.lines)
    /\ Cardinality({t.name : t \in templates}) = Cardinality(templates)
    /\ syncs \in 0 .. MaxSyncs

(* What the template of a rule should be.                                  *)
Block(rule) ==
    LET body == IF rule.line = "alert" THEN <<rule>> \o Labels ELSE <<rule>>
    IN  IF rule.of \in Range(ConditionMap) THEN <<If(rule.of)>> \o body \o <<EndIf>> ELSE body

(* The groups for which the insertions are made: no recording rule comes   *)
(* after an alert, and of the alerts that begin with a key there is none   *)
(* but the key's own, once.                                                *)
Plain(rules) ==
    /\ \A i \in Alerts(rules) : \A j \in i .. Len(rules) : j \in Alerts(rules)
    /\ \A i \in Alerts(rules) : BeginsWith[rules[i].of] \subseteq {rules[i].of}
    /\ \A i, j \in Alerts(rules) :
          rules[i].of = rules[j].of /\ rules[i].of \in Range(ConditionMap) => i = j

(* In whatever order a group has its alerts and alert_condition_map its    *)
(* keys, every alert comes out under its own condition and no other, with  *)
(* one block of labels, and every {{- if }} is closed where it should be   *)
(* (sync_prometheus_rules.py:208-261).                                     *)
EveryAlertWrapped ==
    \A t \in templates : Plain(t.rules) =>
        t.lines = FlattenSeq([i \in DOMAIN t.rules |-> Block(t.rules[i])])
=============================================================================
