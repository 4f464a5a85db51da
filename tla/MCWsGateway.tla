---------------------------- MODULE MCWsGateway ----------------------------
\* Small populations of sockets and messages for the gateway.
EXTENDS WsGateway

CONSTANTS r1, r2, c1, c2, c3, ann, bob, NoMutationId

Message(conn, kind) == [conn |-> conn, kind |-> kind, id |-> NoMutationId]
Retry(conn, id, try) ==
  [conn |-> conn, kind |-> "mutation", id |-> id, try |-> try]
Watch(c) == {Message(c, "join"), Message(c, "subscribe")}

\* ann on r1, bob on r2, and ann again on r2.
Homes == [c \in Conns |-> IF c = c1 THEN r1 ELSE r2]
Owners == [c \in Conns |-> IF c = c2 THEN bob ELSE ann]
AllEditors == [u \in Users |-> "editor"]

\* ann sends one edit from two connections; the second also watches.
Visit ==
  Watch(c3) \cup {Message(c3, "leave"), Retry(c1, "a", 1), Retry(c3, "a", 2)}

\* bob watches for a while on one replica what ann writes on the other.
OneWatcher ==
  Watch(c2) \cup {Message(c1, "mutation"), Retry(c1, NoMutationId, 2)}
=============================================================================
