--------------------------------- MODULE Keys ---------------------------------
(***************************************************************************)
(* The keys that sign the tokens of the app.  Two pairs of a certificate   *)
(* and a key lie in files; whoever runs the servers replaces the older     *)
(* pair from time to time.  A server reads a certificate and then its key, *)
(* keeps the pair for a minute, signs with the key of the certificate that *)
(* is valid longest, and accepts a token of either key.                    *)
(***************************************************************************)
EXTENDS Absent, FiniteSets

CONSTANTS
    Servers,
    MaxRotations  \* bound: replacements of a pair

ASSUME KeysAssumption == MaxRotations \in Nat

Slots == {1, 2}

VARIABLES
    files,       \* for each slot [cert, key]; both are numbered, and a later one is valid longer
    rotations,   \* replacements so far
    pairs,       \* for each server and slot the pair it has read, None when it has none
    loaded,      \* history: the number of replacements when a server began to read the pair of a slot
    reading,     \* the file that a server reads next: [slot, half], where half is what it has of the pair
    tokens       \* [key, made, fresh]: the key of a token, the number of replacements when it was signed, and
                 \* whether the server had read the pairs since the last one

keyVars == <<files, rotations, pairs, loaded, reading, tokens>>

Numbers == 1..(MaxRotations + 2)
CertKeyPair == [cert : Numbers, key : Numbers]

KeysTypeOK ==
    /\ files \in [Slots -> CertKeyPair] /\ rotations \in 0..MaxRotations
    /\ pairs \in [Servers -> [Slots -> CertKeyPair \cup {None}]]
    /\ loaded \in [Servers -> [Slots -> 0..MaxRotations]]
    /\ reading \in [Servers -> [slot : Slots, cert : Numbers \cup {None}, key : Numbers \cup {None}] \cup {None}]
    /\ tokens \subseteq [key : Numbers, made : 0..MaxRotations, fresh : BOOLEAN]

KeysInit ==
    /\ files = [i \in Slots |-> [cert |-> i, key |-> i]]
    /\ rotations = 0
    /\ pairs = [s \in Servers |-> [i \in Slots |-> None]]
    /\ loaded = [s \in Servers |-> [i \in Slots |-> 0]]
    /\ reading = [s \in Servers |-> None]
    /\ tokens = {}

-----------------------------------------------------------------------------

\* Pairs are replaced far less often than once a minute, so that no server has a pair, or the half of
\* one, from before the last time.
Rotate ==
    /\ rotations < MaxRotations /\ rotations' = rotations + 1
    /\ \A s \in Servers, i \in Slots :
        pairs[s][i] # None \/ (reading[s] # None /\ reading[s].slot = i) => loaded[s][i] = rotations
    /\ LET older == CHOOSE i \in Slots : \A j \in Slots : files[i].cert <= files[j].cert
           next == rotations' + 2
       IN  files' = [files EXCEPT ![older] = [cert |-> next, key |-> next]]
    /\ UNCHANGED <<pairs, loaded, reading, tokens>>

\* mutant: the key is read before the certificate
KeyFirst(s, i) ==
    reading' = [reading EXCEPT ![s] = [slot |-> i, cert |-> None, key |-> files[i].key]]

\* the first of the two files
ReadFirst(s, i) ==
    reading' = [reading EXCEPT ![s] = [slot |-> i, cert |-> files[i].cert, key |-> None]]

\* load_cert_key_pair
StartLoading(s, i) ==
    /\ reading[s] = None /\ pairs[s][i] = None
    /\ ReadFirst(s, i)
    /\ loaded' = [loaded EXCEPT ![s][i] = rotations]
    /\ UNCHANGED <<files, rotations, pairs, tokens>>

EndLoading(s) ==
    /\ reading[s] # None
    /\ LET r == reading[s]
           pair == [cert |-> IF r.cert = None THEN files[r.slot].cert ELSE r.cert,
                    key |-> IF r.key = None THEN files[r.slot].key ELSE r.key]
       IN  pairs' = [pairs EXCEPT ![s][r.slot] = pair]
    /\ reading' = [reading EXCEPT ![s] = None]
    /\ UNCHANGED <<files, rotations, loaded, tokens>>

\* the pair is kept for a minute
ExpirePair(s, i) ==
    /\ pairs[s][i] # None
    /\ pairs' = [pairs EXCEPT ![s][i] = None]
    /\ UNCHANGED <<files, rotations, loaded, reading, tokens>>

HasPairs(s) == \A i \in Slots : pairs[s][i] # None

\* the pairs in the order of the end of their certificates: the first one signs
Newest(s) == CHOOSE i \in Slots : \A j \in Slots : pairs[s][i].cert >= pairs[s][j].cert

Fresh(s) == HasPairs(s) /\ \A i \in Slots : loaded[s][i] = rotations

Encode(s) ==
    /\ HasPairs(s)
    /\ tokens' = tokens \cup {[key |-> pairs[s][Newest(s)].key, made |-> rotations, fresh |-> Fresh(s)]}
    /\ UNCHANGED <<files, rotations, pairs, loaded, reading>>

\* the key of a token is found by its id among the keys of the server
Decodes(s, t) == \E i \in Slots : pairs[s][i].key = t.key

KeysNext ==
    \/ Rotate
    \/ \E s \in Servers :
        \/ \E i \in Slots : StartLoading(s, i) \/ ExpirePair(s, i)
        \/ EndLoading(s)
        \/ Encode(s)

KeysSpec == KeysInit /\ [][KeysNext]_keyVars

-----------------------------------------------------------------------------
(* What the keys promise.                                                  *)

\* A token stays good until the next replacement of a pair at least, and until the one after it when the server that
\* signed it knew the newest key: every server that has read the files since accepts it, although a pair may be
\* replaced between the reading of its certificate and of its key.
TokenOutlivesRotation ==
    \A t \in tokens : t.made = rotations \/ (t.fresh /\ t.made + 1 = rotations) =>
        /\ \E i \in Slots : files[i].key = t.key
        /\ \A s \in Servers : Fresh(s) => Decodes(s, t)

=============================================================================
