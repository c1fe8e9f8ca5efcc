------------------------------ MODULE ChatRoom ------------------------------
(***************************************************************************)
(* What the video chat server does for those who are logged in, without    *)
(* links that come and go and without tables: a user is logged in at most  *)
(* once; whoever has subscribed to another login gets its stream until he  *)
(* takes the subscription back or one of the two logins ends.  A login     *)
(* that ends leaves its subscriptions on its connection: until the friend  *)
(* streams, the next login over that connection inherits them, and nobody  *)
(* else ever gets a stream unasked.                                        *)
(***************************************************************************)
EXTENDS Naturals, FiniteSets

CONSTANTS User,    \* the user sessions people log in with
          Mark,    \* the connections they log in over
          Nothing  \* nothing has been sent yet

VARIABLES logins,  \* the logins: [user, session, mark]
          wants,   \* pairs of sessions: the first has subscribed to the second
          stale,   \* pairs of a connection without a login and the session
                   \* that an ended login of it had subscribed to
          issued,  \* how many sessions have been given out
          sent     \* what was sent last

vars == <<logins, wants, stale, issued, sent>>

Sessions == {x.session : x \in logins}

(* Those who stay when the logins in gone end, and what their connections  *)
(* are left with.                                                          *)
Without(gone) == {x \in logins : x.session \notin gone}
WantsWithout(gone) == {w \in wants : w[1] \notin gone /\ w[2] \notin gone}
Left(gone) ==
    {p \in Mark \X (Sessions \ gone) :
        \/ p \in stale
        \/ \E x \in logins : /\ x.session \in gone /\ x.mark = p[1]
                             /\ <<x.session, p[2]>> \in wants}

Init == /\ logins = {} /\ wants = {} /\ stale = {}
        /\ issued = 0 /\ sent = Nothing

(* A login ends that of the same user and that over the same connection,   *)
(* and takes over what the connection is left with.                        *)
Login(u, m) ==
    LET gone == {x.session : x \in {y \in logins : y.user = u \/ y.mark = m}}
    IN  /\ logins' = Without(gone)
                         \cup {[user |-> u, session |-> issued, mark |-> m]}
        /\ wants' = WantsWithout(gone)
                        \cup {<<issued, s>> : s \in {t \in Sessions : <<m, t>> \in Left(gone)}}
        /\ stale' = {p \in Left(gone) : p[1] # m}
        /\ issued' = issued + 1
        /\ sent' = [type |-> "USERLOGIN", session |-> issued]

Leave(s) == /\ s \in Sessions
            /\ logins' = Without({s})
            /\ wants' = WantsWithout({s})
            /\ stale' = Left({s})
            /\ UNCHANGED issued
            /\ sent' \in {sent, [type |-> "USERLOGOUT", session |-> s]}

(* Subscribing is answered with whether the other one is logged in.        *)
Subscribe(v, s) ==
    /\ v \in Sessions
    /\ wants' = wants \cup {w \in {<<v, s>>} : s \in Sessions}
    /\ sent' = [type |-> "SUBSCRIBE", session |-> v, found |-> s \in Sessions]
    /\ UNCHANGED <<logins, stale, issued>>

Unsubscribe(v, s) ==
    /\ v \in Sessions
    /\ wants' = wants \ {<<v, s>>}
    /\ sent' = [type |-> "UNSUBSCRIBE", session |-> v, found |-> s \in Sessions]
    /\ UNCHANGED <<logins, stale, issued>>

(* A frame names its sender by his connection.                             *)
Stream(x) ==
    /\ x \in logins
    /\ sent' = [type |-> "STREAM", from |-> x.mark,
                to |-> {v \in Sessions : <<v, x.session>> \in wants}]
    /\ stale' = {p \in stale : p[2] # x.session}
    /\ UNCHANGED <<logins, wants, issued>>

Heartbeat(s) ==
    /\ s \in Sessions
    /\ sent' = [type |-> "HEARTBEAT", session |-> s]
    /\ UNCHANGED <<logins, wants, stale, issued>>

Next == \/ \E u \in User, m \in Mark : Login(u, m)
        \/ \E s \in Sessions : Leave(s) \/ Heartbeat(s)
        \/ \E x \in logins : Stream(x)
        \/ \E v \in Sessions, s \in 0 .. issued :
              Subscribe(v, s) \/ Unsubscribe(v, s)

Spec == Init /\ [][Next]_vars

=============================================================================
