---------------------------- MODULE GroupService ----------------------------
(***************************************************************************)
(* What the broadcast publisher promises, with no heap, no reference       *)
(* counts and no tunnel: clients act for users, users are members of       *)
(* groups, and a user stays in its groups for exactly as long as at least  *)
(* one of its clients is subscribed.  Broadcast.tla implements this.       *)
(***************************************************************************)
CONSTANTS Client,   \* client ids of the tunnel
          User,     \* user names
          Group,    \* groups (hashes of group names)
          NoUser    \* "this client is not subscribed"

VARIABLES user,     \* the user each subscribed client acts for
          members   \* the users in each group

vars == <<user, members>>

TypeOK == /\ user \in [Client -> User \cup {NoUser}]
          /\ members \in [Group -> SUBSET User]

Init == /\ user = [c \in Client |-> NoUser]
        /\ members = [g \in Group |-> {}]

Subscribe(c, u) == /\ user[c] = NoUser
                   /\ user' = [user EXCEPT ![c] = u]
                   /\ UNCHANGED members

\* Some other client still acts for the user of c.
Shared(c) == \E d \in Client \ {c} : user[d] = user[c]

Unsubscribe(c) ==
    /\ user[c] # NoUser
    /\ user' = [user EXCEPT ![c] = NoUser]
    /\ members' = [g \in Group |-> IF Shared(c) THEN members[g]
                                   ELSE members[g] \ {user[c]}]

Join(c, g) == /\ user[c] # NoUser
              /\ members' = [members EXCEPT ![g] = @ \cup {user[c]}]
              /\ UNCHANGED user

Leave(c, g) == /\ user[c] # NoUser
               /\ members' = [members EXCEPT ![g] = @ \ {user[c]}]
               /\ UNCHANGED user

Next == \E c \in Client :
            \/ \E u \in User : Subscribe(c, u)
            \/ Unsubscribe(c)
            \/ \E g \in Group : Join(c, g) \/ Leave(c, g)

Spec == Init /\ [][Next]_vars
=============================================================================
