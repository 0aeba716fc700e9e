----------------------------- MODULE McpClient -----------------------------
(***************************************************************************)
(* protocols/mcp-client: the connections to an MCP server and the list of  *)
(* tools each one holds.  The plugin connects its configured server at     *)
(* init and an agent's own (external) server at the first use, both to the *)
(* one server modelled here.                                               *)
(*                                                                         *)
(* The server's list changes by itself; served is the history of its lists *)
(* and a list is named by its position there.  A client asks for the list  *)
(* (tools/list), the server answers with the list of that moment, the      *)
(* answer arrives: three steps, and the answers of two requests may arrive *)
(* in either order.  One action may not be split further: connect() and    *)
(* its 4xx fallback to SSE end in one connected client or in a failure.    *)
(***************************************************************************)
EXTENDS Naturals, Sequences, FiniteSets, Permissions

CONSTANTS Originals,           \* the server's own tool names
          SanitizeMcpToolName, \* the snake_case name each is imported under
          Lists,               \* the tool lists the server may have
          Eras,                \* protocol revisions a connection may negotiate
          MaxChanges,          \* bound: changes of the server's list
          MaxConns,            \* bound: connections opened
          MaxDrops             \* bound: requests and connections that fail

ASSUME McpAssumption ==
  /\ SanitizeMcpToolName \in [Originals -> Names]
  /\ Lists \subseteq SUBSET Originals
  /\ Eras \subseteq {"legacy", "modern"}

VARIABLES served,    \* the lists the server had, the last one its present one
          conns,     \* ConnectedServer objects, in the order they were begun
          refreshes, \* requests of the list_changed handler under way
          cache,     \* external.ts: the connection cached for name::url, 0 for none
          drops      \* how many requests failed

mcpVars == <<served, conns, refreshes, cache, drops>>

Latest == Len(served)

\* fetchTools: two originals of one list with one imported name.
Clash(list) ==
  \E s, t \in list : s # t /\ SanitizeMcpToolName[s] = SanitizeMcpToolName[t]

\* stage   the await finishConnect stands at; "open" once it has returned
\* tools   the list the connection's tools came from
\* told    a list_changed of the server would reach the handler
\* excuse  why that list may be an old one, "" when nothing explains it
Connection(for) ==
  [for |-> for, stage |-> "connecting", tools |-> 0, told |-> FALSE, excuse |-> "",
   closed |-> FALSE]

McpInit ==
  /\ \E list \in Lists : served = <<list>>
  /\ conns = <<>>
  /\ refreshes = {}
  /\ cache = 0
  /\ drops = 0

---------------------------------------------------------------------------
(* connectServer and finishConnect, one action per answer awaited.         *)

BeginConnect(for) ==
  /\ Len(conns) < MaxConns
  /\ conns' = Append(conns, Connection(for))
  /\ UNCHANGED <<served, refreshes, drops>>

\* client.connect() fails.  The client is given up; nothing is left to close.
ConnectRefused(c) ==
  /\ conns[c].stage = "connecting"
  /\ drops < MaxDrops
  /\ drops' = drops + 1
  /\ conns' = [conns EXCEPT ![c].stage = "failed", ![c].closed = TRUE]
  /\ cache' = IF cache = c THEN 0 ELSE cache
  /\ UNCHANGED <<served, refreshes>>

Connected(c) ==
  /\ conns[c].stage = "connecting"
  /\ conns' = [conns EXCEPT ![c].stage = "asking"]
  /\ UNCHANGED <<served, refreshes, cache, drops>>

\* The server answers the connection's first tools/list.
ListAnswered(c) ==
  /\ conns[c].stage = "asking"
  /\ conns' = [conns EXCEPT ![c].stage = "listed", ![c].tools = Latest]
  /\ UNCHANGED <<served, refreshes, cache, drops>>

\* The answer arrives: the tools are imported and the list_changed handler is
\* installed, which a connection of the legacy revision is done with; one of the
\* modern revision subscribes first.  On a clash of names finishConnect throws
\* and the client it was given stays open; the cached promise is dropped.
HandlerInstalled(c) ==
  /\ conns[c].stage = "listed"
  /\ IF Clash(served[conns[c].tools])
       THEN /\ conns' = [conns EXCEPT ![c].stage = "failed"]
            /\ cache' = IF cache = c THEN 0 ELSE cache
       ELSE /\ \E era \in Eras :
                 conns' = [conns EXCEPT ![c].told = era = "legacy",
                             ![c].stage = IF era = "modern" THEN "listening" ELSE "open"]
            /\ UNCHANGED cache
  /\ UNCHANGED <<served, refreshes, drops>>

\* client.listen() answers; its failure is only warned about.
ListenEnds(c) ==
  /\ conns[c].stage = "listening"
  /\ \/ /\ conns' = [conns EXCEPT ![c].stage = "open", ![c].told = TRUE]
        /\ UNCHANGED drops
     \/ /\ drops < MaxDrops
        /\ drops' = drops + 1
        /\ conns' = [conns EXCEPT ![c].stage = "open"]
  /\ UNCHANGED <<served, refreshes, cache>>

---------------------------------------------------------------------------
(* The server's list and the refreshes it causes.                          *)

\* The server changes its list and tells every connection it can tell.  A
\* connection that took its list already and cannot be told misses the change.
ServerChanges ==
  /\ Latest <= MaxChanges
  /\ \E list \in Lists \ {served[Latest]} : served' = Append(served, list)
  /\ refreshes' = refreshes \cup
       {[conn |-> c, change |-> Latest + 1, at |-> 0] : c \in {d \in DOMAIN conns : conns[d].told}}
  /\ conns' = [c \in DOMAIN conns |->
       IF conns[c].tools # 0 /\ ~ conns[c].told /\ ~ conns[c].closed
         THEN [conns[c] EXCEPT !.excuse = "missed"] ELSE conns[c]]
  /\ UNCHANGED <<cache, drops>>

\* The server answers the request one list_changed caused.
RefreshAnswered(f) ==
  /\ f \in refreshes /\ f.at = 0
  /\ refreshes' = (refreshes \ {f}) \cup {[f EXCEPT !.at = Latest]}
  /\ UNCHANGED <<served, conns, cache, drops>>

\* Mutant: the handler keeps the list it has.
RefreshDropped(f) ==
  /\ f \in refreshes /\ f.at # 0
  /\ refreshes' = refreshes \ {f}
  /\ UNCHANGED <<served, conns, cache, drops>>

\* The answer arrives, in whatever order, and replaces server.tools.  A clash
\* of names throws, and the list stays as it was.
RefreshArrives(f) ==
  /\ f \in refreshes /\ f.at # 0
  /\ refreshes' = refreshes \ {f}
  /\ conns' = [conns EXCEPT ![f.conn] =
       IF Clash(served[f.at]) THEN [@ EXCEPT !.excuse = "failed"]
       ELSE [@ EXCEPT !.tools = f.at,
                      !.excuse = IF f.at < conns[f.conn].tools THEN "overtaken"
                                 ELSE IF f.at = Latest THEN "" ELSE conns[f.conn].excuse]]
  /\ UNCHANGED <<served, cache, drops>>

\* The request fails: only warned about.
RefreshFails(f) ==
  /\ f \in refreshes /\ drops < MaxDrops
  /\ drops' = drops + 1
  /\ refreshes' = refreshes \ {f}
  /\ conns' = [conns EXCEPT ![f.conn].excuse = "failed"]
  /\ UNCHANGED <<served, cache>>

\* The connections of C are closed: what they still await is rejected.
CloseConns(C) ==
  /\ conns' = [c \in DOMAIN conns |->
       IF c \in C THEN [conns[c] EXCEPT !.closed = TRUE, !.told = FALSE, !.excuse = ""]
                  ELSE conns[c]]
  /\ refreshes' = {f \in refreshes : f.conn \notin C}

McpStep ==
  \/ \E c \in DOMAIN conns :
       ConnectRefused(c) \/ Connected(c) \/ ListAnswered(c) \/ HandlerInstalled(c) \/ ListenEnds(c)
  \/ ServerChanges
  \/ \E f \in refreshes : RefreshAnswered(f) \/ RefreshArrives(f) \/ RefreshFails(f)

---------------------------------------------------------------------------
\* FreshAtRest: a connection with nothing under way holds the server's present
\* list, unless a change came before its handler (or its subscription) existed,
\* a refresh failed, or an older answer overtook a newer one.
\* (docs/mcp-client.md:103-108; client.ts:134-152.)
FreshAtRest ==
  \A c \in DOMAIN conns :
     (/\ conns[c].stage = "open" /\ ~ conns[c].closed /\ conns[c].excuse = ""
      /\ ~ \E f \in refreshes : f.conn = c)
       => served[conns[c].tools] = served[Latest]
============================================================================
