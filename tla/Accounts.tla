----------------------------- MODULE Accounts -----------------------------
(***************************************************************************)
(* What the server promises about accounts and sessions, whatever handler  *)
(* changes them and however ids are chosen: two open accounts never share  *)
(* an address, a closed account never opens again, a session stays with    *)
(* the account it was begun for and ends once.                             *)
(***************************************************************************)
CONSTANTS
    Account,  \* accounts anybody ever opens
    Email,
    Token,    \* session tokens anybody ever gets
    NotYet,   \* not opened or not begun yet
    Over      \* closed or ended

VARIABLES
    address,  \* the address of each account
    holder    \* the account each session belongs to

vars == <<address, holder>>

TypeOK ==
    /\ address \in [Account -> Email \cup {NotYet, Over}]
    /\ holder \in [Token -> Account \cup {NotYet, Over}]

Open(a) == address[a] \in Email
Unused(e) == \A b \in Account : address[b] # e

\* Accounts and sessions of an earlier run of the server.
Init ==
    /\ TypeOK
    /\ \A a, b \in Account : Open(a) /\ address[a] = address[b] => a = b
    /\ \A t \in Token : holder[t] \in Account => Open(holder[t])

Register(a, e) ==
    /\ address[a] = NotYet
    /\ Unused(e)
    /\ address' = [address EXCEPT ![a] = e]
    /\ UNCHANGED holder

Readdress(a, e) ==
    /\ Open(a)
    /\ Unused(e)
    /\ address' = [address EXCEPT ![a] = e]
    /\ UNCHANGED holder

Close(a) ==
    /\ Open(a)
    /\ \A t \in Token : holder[t] # a
    /\ address' = [address EXCEPT ![a] = Over]
    /\ UNCHANGED holder

SignIn(t, a) ==
    /\ holder[t] = NotYet
    /\ Open(a)
    /\ holder' = [holder EXCEPT ![t] = a]
    /\ UNCHANGED address

SignOut(t) ==
    /\ holder[t] \in Account
    /\ holder' = [holder EXCEPT ![t] = Over]
    /\ UNCHANGED address

Next ==
    \/ \E a \in Account, e \in Email : Register(a, e) \/ Readdress(a, e)
    \/ \E a \in Account : Close(a)
    \/ \E t \in Token, a \in Account : SignIn(t, a)
    \/ \E t \in Token : SignOut(t)

Spec == Init /\ [][Next]_vars
============================================================================
