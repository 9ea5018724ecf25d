---------------------------- MODULE GroupSelector ----------------------------
(***************************************************************************)
(* Selection of Pods and ExternalEntities by the selectors of the           *)
(* controller's groups (pkg/controller/networkpolicy).  The code has two    *)
(* implementations of "this group selects this object": processSelector     *)
(* lists the members of a group, and labelsMatchGroupSelector tells an      *)
(* event handler which groups an object belongs to.  A label selector is    *)
(* the set of labels it matches, and Nil when it is unset.                  *)
(***************************************************************************)
EXTENDS Naturals

CONSTANTS Members,     \* Pods and ExternalEntities
          Kind,        \* [Members -> {"pod", "ee"}]
          Namespaces,
          NsOf,        \* [Members -> Namespaces]
          Labels,      \* labels of members
          NsLabels,    \* labels of Namespaces
          Nil          \* an unset selector, an empty name, an absent object

ASSUME MembersAssumption ==
    /\ Kind \in [Members -> {"pod", "ee"}]
    /\ NsOf \in [Members -> Namespaces]
    /\ Nil \notin Namespaces \cup NsLabels \cup Labels

(* GroupSelector: namespace and nsSelector are never set together, because  *)
(* toGroupSelector fills namespace only when there is no nsSelector.        *)
LabelSelector(L) == (SUBSET L) \cup {Nil}

GroupSelectors ==
    {sel \in [namespace : Namespaces \cup {Nil},
              podSelector : LabelSelector(Labels),
              nsSelector : LabelSelector(NsLabels),
              eeSelector : LabelSelector(Labels)] :
        sel.namespace # Nil => sel.nsSelector = Nil}

(* The selector of a policy's Namespace and label selectors; the group's    *)
(* normalised name identifies the selector, so the record serves as the     *)
(* key of the group.                                                        *)
ToGroupSelector(namespace, podSelector, nsSelector, eeSelector) ==
    [namespace |-> IF nsSelector = Nil THEN namespace ELSE Nil,
     podSelector |-> podSelector,
     nsSelector |-> nsSelector,
     eeSelector |-> eeSelector]

Matches(selector, label) == selector # Nil /\ label \in selector

(* Slip: a selector with only an nsSelector is not considered.              *)
LabelsMatchNoNsOnly(m, label, nsLabel, sel) ==
    LET objSelector == IF Kind[m] = "ee" THEN sel.eeSelector ELSE sel.podSelector
    IN  /\ sel.namespace # Nil => sel.namespace = NsOf[m]
        /\ sel.nsSelector # Nil => Matches(sel.nsSelector, nsLabel)
        /\ Matches(objSelector, label)

(* A Namespace that is not in the lister has label Nil and matches no       *)
(* nsSelector.                                                              *)
LabelsMatchGroupSelector(m, label, nsLabel, sel) ==
    LET objSelector == IF Kind[m] = "ee" THEN sel.eeSelector ELSE sel.podSelector
    IN  \/ /\ sel.namespace # Nil
           /\ sel.namespace = NsOf[m]
           /\ Matches(objSelector, label)
        \/ /\ sel.namespace = Nil
           /\ sel.nsSelector # Nil
           /\ Matches(sel.nsSelector, nsLabel)
           /\ \/ Matches(objSelector, label)
              \/ sel.eeSelector = Nil /\ sel.podSelector = Nil
        \/ /\ sel.namespace = Nil
           /\ sel.nsSelector = Nil
           /\ Matches(objSelector, label)

(* Whether processSelector(sel) lists m.  ExternalEntities are listed only  *)
(* when there is no podSelector.                                            *)
ProcessSelector(m, label, nsLabel, sel) ==
    LET listed == IF sel.podSelector # Nil
                  THEN Kind[m] = "pod" /\ label \in sel.podSelector
                  ELSE Kind[m] = "ee" /\ Matches(sel.eeSelector, label)
    IN  \/ /\ sel.namespace # Nil
           /\ NsOf[m] = sel.namespace
           /\ listed
        \/ /\ sel.namespace = Nil
           /\ sel.nsSelector # Nil
           /\ Matches(sel.nsSelector, nsLabel)
           /\ \/ listed
              \/ /\ sel.podSelector = Nil /\ sel.eeSelector = Nil
                 /\ Kind[m] = "pod"
        \/ /\ sel.namespace = Nil
           /\ sel.nsSelector = Nil
           /\ listed
==============================================================================
