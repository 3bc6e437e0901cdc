------------------------------ MODULE Sockets ------------------------------
(***************************************************************************)
(* The socket between the server and the page of one signed-in user: the   *)
(* handshake and the rooms of bidding.gateway.ts and orders.geteway.ts,    *)
(* the connection of socketClient.ts, and the memory of realtimeStore.ts   *)
(* that drops repeated events.  What is sent to a room the socket is not   *)
(* in, or while it is down, is not sent again.                             *)
(***************************************************************************)
EXTENDS Integers, Sequences

CONSTANTS
    MaxConnections, \* bound on the connections of a behaviour
    MaxInbox        \* bound on the messages under way

ASSUME SocketsAssumption == MaxConnections \in Nat /\ MaxInbox \in Nat \ {0}

VARIABLES
    conn,           \* the socket: down, open, or open and in the room of its user
    connections,    \* how often it has connected
    auctionRoom,    \* whether it is in the room of the auction the page shows
    subscription,   \* the page's auction_subscribe
    resubscribes,   \* whether the auction is in activeAuctionRooms
    inbox,          \* messages on their way to the page
    seen            \* ids of the notifications that realtimeStore remembers

OneOf(S) == CHOOSE x \in S : TRUE

sockets == <<conn, connections, auctionRoom, subscription, resubscribes, inbox, seen>>
subscribing == <<auctionRoom, subscription, resubscribes>>

SocketsTypeOK ==
    /\ conn \in {"down", "open", "joined"} /\ connections \in 0..MaxConnections
    /\ auctionRoom \in BOOLEAN /\ resubscribes \in BOOLEAN
    /\ subscription \in {"none", "sent", "answered"}
    /\ Len(inbox) =< MaxInbox

\* A page that is loading: its effects have asked for the connection.
SocketsInit ==
    /\ conn = "down" /\ connections = 0
    /\ auctionRoom = FALSE /\ subscription = "none" /\ resubscribes = FALSE
    /\ inbox = <<>> /\ seen = {}

\* The handshake is done; a reconnection repeats the subscriptions that were granted.
Connected ==
    /\ conn = "down" /\ connections < MaxConnections
    /\ conn' = "open" /\ connections' = connections + 1
    /\ subscription' = IF resubscribes THEN "sent" ELSE subscription
    /\ UNCHANGED <<auctionRoom, resubscribes, inbox, seen>>

\* handleConnection has verified the token and joins the room of the user.
Join ==
    /\ conn = "open"
    /\ conn' = "joined"
    /\ UNCHANGED <<connections, subscribing, inbox, seen>>

\* The network fails, or the gateway refuses the token: what is under way is lost.
Disconnect ==
    /\ conn # "down"
    /\ conn' = "down" /\ auctionRoom' = FALSE /\ inbox' = <<>>
    /\ subscription' = IF subscription = "sent" THEN "none" ELSE subscription
    /\ UNCHANGED <<connections, resubscribes, seen>>

-----------------------------------------------------------------------------
(* Rooms *)

\* The page's effect emits auction_subscribe.
AskForRoom ==
    /\ subscription = "none" /\ conn # "down"
    /\ subscription' = "sent"
    /\ UNCHANGED <<conn, connections, auctionRoom, resubscribes, inbox, seen>>

\* Nest passes a handler that decorates one parameter nothing in the others.
Payload == "undefined"

\* subscribe: an identified client, an auction id, an auction that goes on.
MayJoin == conn = "joined" /\ Payload # "undefined"

Subscribe ==
    /\ subscription = "sent" /\ conn # "down"
    /\ auctionRoom' = MayJoin
    /\ subscription' = "answered"
    /\ resubscribes' = (resubscribes \/ MayJoin)
    /\ UNCHANGED <<conn, connections, inbox, seen>>

-----------------------------------------------------------------------------
(* Messages *)

Notice(e) == [kind |-> "notification", of |-> e]
Bid(price) == [kind |-> "bid", of |-> price]

\* emit to a room: nobody there, nothing is sent.
Push(message, member) ==
    IF member THEN Len(inbox) < MaxInbox /\ inbox' = Append(inbox, message)
              ELSE UNCHANGED inbox

Received == Head(inbox)
Receive == inbox # <<>> /\ inbox' = Tail(inbox)

\* rememberEvent; its window of 2000 is never full here.
Remember(e) == seen' = seen \cup {e}

-----------------------------------------------------------------------------

\* "Realtime. Socket.IO: ... live bid" (README.md:141): once the page's subscription
\* is answered on a connection that knows its user, it hears the bids of its auction.
SubscribedHearsBids == conn = "joined" /\ subscription = "answered" => auctionRoom
=============================================================================
