------------------------------ MODULE AuthProps ------------------------------
(* What signing up and signing in promise. *)
EXTENDS Auth

\* A user whose email is verified has been given a workspace, or a request is about to give it one, whichever
\* requests for the same email or the same account of a provider run beside it.  Only a sign up that ended with an
\* error leaves a user without one: a crash, an account of a provider that somebody else has linked in between,
\* invitations by two workspaces, or a slug that was taken in between.
NobodyHomeless ==
    \A u \in Users :
        row[u] # None /\ row[u].verified /\ u \notin home
            => u \in cut \/ \E t \in Tasks : who[t] = u /\ (pc[t] \in Homing \/ t \in fresh)

\* The recovery codes of a user were all made with one secret, the one in the user's row if there is one:
\* a code from before the second factor was set up anew lets nobody in.
CodesOfSecret ==
    \A u \in Users : \A c, d \in codes[u] :
        c.secret = d.secret /\ row[u].secret \in {c.secret, None}

=============================================================================
