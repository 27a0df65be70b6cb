---------------------------- MODULE Authorization ----------------------------
(***************************************************************************)
(* Who is allowed what: the lists of users, groups and e-mail domains of   *)
(* the configuration, and the groups of a user (auth/authorization.py).    *)
(*                                                                         *)
(* A list is a set of entries. An entry is any user, a user, all users of  *)
(* a domain ("*@domain") or a group ("@group"); `upper' tells a spelling   *)
(* with capitals from the lower case one.                                  *)
(***************************************************************************)
EXTENDS Naturals, Sequences, FiniteSets, FiniteSetsExt, SequencesExt

Entry(kind, name, domain) ==
    [kind |-> kind, name |-> name, domain |-> domain, upper |-> FALSE]

User(name, domain) == Entry("user", name, domain)

DomainOf(domain) == Entry("domain", "*", domain)

Group(name) == Entry("group", name, "")

AnyUser == Entry("any", "*", "")

Capitals(entry) == [entry EXCEPT !.upper = TRUE]

(* _normalize_user *)
Normal(entry) == [entry EXCEPT !.upper = FALSE]

(* _normalize_users: a list with the mark of any user is that mark. *)
NormalList(list) ==
    IF AnyUser \in list THEN {AnyUser} ELSE {Normal(e) : e \in list}

(* _is_allowed_internal, for a user whom the provider puts into groups *)
InList(user, list, groups) ==
    \/ AnyUser \in list
    \/ Normal(user) \in list
    \/ user.kind = "user" /\ user.domain # "" /\ DomainOf(user.domain) \in list
    \/ \E g \in groups : Normal(g) \in list

IsAllowed(user, list, groups) == InList(user, NormalList(list), groups)

-----------------------------------------------------------------------------
(* The groups of the configuration: from a group to its members, which may *)
(* be groups again.                                                        *)

Nested(groups, group) == {m \in groups[group] : m.kind = "group" /\ m \in DOMAIN groups}

(* A turn of the loop of _flatten_groups: it takes the last group of the   *)
(* queue, once, and the finished result of an earlier group instead of its *)
(* members.                                                                *)
Turn(groups, result, s) ==
    LET current == Last(s.queue)
        rest == Front(s.queue)
        seen == s.visited \cup {current}
    IN  IF s.queue = <<>> THEN s
        ELSE IF current \in s.visited
             THEN [queue |-> rest, visited |-> s.visited, members |-> s.members]
        ELSE IF current \in DOMAIN result
             THEN [queue |-> rest, visited |-> seen, members |-> s.members \cup result[current]]
        ELSE [queue |-> rest \o SetToSeq(Nested(groups, current)), visited |-> seen,
              members |-> s.members \cup groups[current]]

(* Mutant: of the groups that a group names only the earlier ones count.   *)
CollectEarlier(groups, result, group) ==
    groups[group] \cup UNION {result[m] : m \in groups[group] \cap DOMAIN result}

(* The members of group, as the loop collects them. A group is visited     *)
(* once and then queues one group for each that it names, so that the      *)
(* queue is empty after so many turns.                                     *)
Turns(groups) == 1 + Cardinality(DOMAIN groups) * Cardinality(DOMAIN groups)

Collect(groups, result, group) ==
    LET After[k \in 0..Turns(groups)] ==
          IF k = 0 THEN [queue |-> <<group>>, visited |-> {}, members |-> {}]
          ELSE Turn(groups, result, After[k - 1])
    IN  After[Turns(groups)].members

(* _flatten_groups, in the order of the configuration *)
Flatten(groups, order) ==
    LET Results[k \in 0..Len(order)] ==
          IF k = 0 THEN <<>>
          ELSE [g \in {order[i] : i \in 1..k} |->
                   IF g = order[k] THEN Collect(groups, Results[k - 1], g) ELSE Results[k - 1][g]]
    IN  Results[Len(order)]

(* PreconfiguredGroupProvider.get_groups *)
ConfiguredGroups(flat, user, known) ==
    {g \in DOMAIN flat :
        \/ \E m \in flat[g] : m.kind # "group" /\ Normal(m) = Normal(user)
        \/ known \cap {m \in flat[g] : m.kind = "group"} # {}}

(* CombinedGroupProvider.get_groups: the authenticator first *)
CombinedGroups(flat, user, provided) ==
    provided \cup ConfiguredGroups(flat, user, provided)

AdminGroup == Group("admin_users")

(* create_group_provider: the administrators are a group as well, unless   *)
(* the configuration has a group of that name.                             *)
WithAdmins(groups, admins) ==
    LET known == {a \in admins : a.kind = "group" => groups = <<>> \/ a \in DOMAIN groups} IN
    IF admins = {} \/ AdminGroup \in DOMAIN groups THEN groups
    ELSE groups @@ (AdminGroup :> known)
=============================================================================
