----------------------------- MODULE UserGroups -----------------------------
(***************************************************************************)
(* The groups of a configuration, which name users, each other and groups  *)
(* that only the authenticator knows of, and the groups of a user          *)
(* (auth/authorization.py): a check of Authorization against what it means *)
(* to be in a group. A step is another configuration.                      *)
(***************************************************************************)
EXTENDS Authorization

CONSTANTS
    GroupNames,   \* the groups of the configuration
    People,       \* users, in some spelling
    OtherGroups,  \* groups that only the authenticator knows of
    MaxMembers    \* bound: the members of a group

VARIABLE groups   \* user_groups of the configuration

MemberSets == {m \in SUBSET (GroupNames \cup OtherGroups \cup People) : Cardinality(m) <= MaxMembers}

ASSUME GroupsAssumption ==
    /\ IsFiniteSet(GroupNames)
    /\ \A g \in GroupNames \cup OtherGroups : g.kind = "group"
    /\ \A p \in People : p.kind # "group"

(* Before there is a configuration *)
NoGroups == <<>>

GroupsInit == groups = [g \in GroupNames |-> {}]

(* The configuration with other members of one group *)
Regroup ==
    \E g \in GroupNames, members \in MemberSets :
        members # groups[g] /\ groups' = [groups EXCEPT ![g] = members]

GroupsSpec == GroupsInit /\ [][Regroup]_groups

GroupOrder == SetToSeq(GroupNames)

-----------------------------------------------------------------------------
(* S has the members of g and those of every group in S. *)
Closed(g, S) == groups[g] \subseteq S /\ \A h \in S \cap GroupNames : groups[h] \subseteq S

(* S has the provided groups, and each group that has the user, in any     *)
(* spelling, or a group of S as a member.                                  *)
Upward(user, provided, S) ==
    /\ provided \subseteq S
    /\ \A g \in GroupNames :
          (\E m \in groups[g] : m \in S \/ (m.kind # "group" /\ Normal(m) = Normal(user))) => g \in S

(* A group has the members that it names and those of the groups that it   *)
(* names, at any depth and with cycles, and nobody else.                   *)
MembersComplete(flat) ==
    \A g \in GroupNames :
        Closed(g, flat[g]) /\ \A S \in SUBSET flat[g] : Closed(g, S) => S = flat[g]

(* A user is in the groups that the authenticator says and in each that    *)
(* has the user or one of these groups as a member, and in no others.      *)
GroupsOfUser(flat, user, provided) ==
    LET all == CombinedGroups(flat, user, provided)
    IN  /\ Upward(user, provided, all)
        /\ \A S \in SUBSET all : Upward(user, provided, S) => S = all

(* Flattening the groups of a configuration neither loses a member nor     *)
(* lets anybody else in.                                                   *)
GroupsComplete ==
    groups # NoGroups =>
        LET flat == Flatten(groups, GroupOrder)
        IN  /\ MembersComplete(flat)
            /\ \A user \in People, provided \in SUBSET (GroupNames \cup OtherGroups) :
                  GroupsOfUser(flat, user, provided)
=============================================================================
