---------------------------- MODULE AccountBook ----------------------------
(***************************************************************************)
(* What the accounts promise, without requests, tokens or documents.       *)
(*                                                                         *)
(* An account is opened once, for an address that stays its own.  It is    *)
(* confirmed only with the link that was mailed when it was opened, and    *)
(* stays confirmed.  Its password is chosen when it is opened, then only   *)
(* with another link that was mailed to it.  A session is one confirmed    *)
(* account's, and stays that account's.  An account, a link, a session and *)
(* the choice of a password bear the name of what asked for them.          *)
(***************************************************************************)
CONSTANTS
    Names,      \* of accounts, links, sessions and passwords
    Emails,     \* addresses
    Unique,     \* an address has one account
    None        \* no value

VARIABLES
    holder,     \* the address of each account; None while it is not open
    secret,     \* who chose the password of each account
    confirmed,  \* accounts whose address was confirmed
    links,      \* the links that were mailed to each account
    session     \* the account of each session

vars == <<holder, secret, confirmed, links, session>>

Init ==
    /\ holder = [a \in Names |-> None]
    /\ secret = [a \in Names |-> None]
    /\ confirmed = {}
    /\ links = [a \in Names |-> {}]
    /\ session = [s \in Names |-> None]

Open(a, e) ==
    /\ holder[a] = None
    /\ Unique => \A b \in Names : holder[b] # e
    /\ holder' = [holder EXCEPT ![a] = e]
    /\ secret' = [secret EXCEPT ![a] = a]
    /\ UNCHANGED <<confirmed, links, session>>

Mail(a, l) ==
    /\ holder[a] # None
    /\ \A b \in Names : l \notin links[b]
    /\ links' = [links EXCEPT ![a] = @ \cup {l}]
    /\ UNCHANGED <<holder, secret, confirmed, session>>

\* Who confirms an address may be signed in at once.
Confirm(a, s) ==
    /\ a \in links[a]
    /\ session[s] = None
    /\ confirmed' = confirmed \cup {a}
    /\ session' \in {session, [session EXCEPT ![s] = a]}
    /\ UNCHANGED <<holder, secret, links>>

SignIn(a, s) ==
    /\ a \in confirmed
    /\ session[s] = None
    /\ session' = [session EXCEPT ![s] = a]
    /\ UNCHANGED <<holder, secret, confirmed, links>>

ChoosePassword(a, p) ==
    /\ links[a] \ {a} # {}
    /\ secret' = [secret EXCEPT ![a] = p]
    /\ UNCHANGED <<holder, confirmed, links, session>>

Next ==
    \/ \E a \in Names, e \in Emails : Open(a, e)
    \/ \E a, n \in Names :
           Mail(a, n) \/ Confirm(a, n) \/ SignIn(a, n) \/ ChoosePassword(a, n)

Spec == Init /\ [][Next]_vars
=============================================================================
