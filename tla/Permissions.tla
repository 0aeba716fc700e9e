---------------------------- MODULE Permissions ----------------------------
(***************************************************************************)
(* packages/core/src/permissions.ts: which of an agent's assembled tools   *)
(* it may call, and which of those wait for a human's approval first.      *)
(*                                                                         *)
(* A name is a sequence of words, the parts its underscores separate, so   *)
(* that leafName joins names the way the code does: "plugin_a_b_c" is the  *)
(* leaf of tool b_c of plugin a and of tool c of plugin a_b alike.  A      *)
(* partial glob is a value of Globs and Expand says which names it covers. *)
(***************************************************************************)
EXTENDS Naturals, Sequences

CONSTANTS Names,    \* the names (and sub-ids) of tools
          Globs,    \* selector segments with a '*' in them, "*" among them
          Expand,   \* the names each glob covers
          None      \* the absent sub-id of a scope without one

ASSUME NamesAssumption ==
  /\ Names \subseteq Seq(STRING)
  /\ Names \cap Globs = {}
  /\ None \notin Names \cup Globs
  /\ Expand \in [Globs -> SUBSET Names]

TOOL_SCOPES == {"tool", "skill", "task", "plugin", "core", "human"}
SUB_SCOPES == {"skill", "plugin"}

\* Where a tool comes from: its scope, the skill or plugin, its own name.
ToolOrigin ==
  [scope : SUB_SCOPES, sub : Names, name : Names]
    \cup [scope : TOOL_SCOPES \ SUB_SCOPES, sub : {None}, name : Names]

\* A selector parseSelector accepts: scoped, never "human", with a sub-id
\* exactly where the scope has one.
ParsedSelector ==
  [scope : SUB_SCOPES, sub : Names \cup Globs, name : Names \cup Globs]
    \cup [scope : (TOOL_SCOPES \ SUB_SCOPES) \ {"human"}, sub : {None}, name : Names \cup Globs]

ToolPermissions == [allow : SUBSET ParsedSelector, ask : SUBSET ParsedSelector,
                    deny : SUBSET ParsedSelector]

\* The name the model calls a tool by.
LeafName(origin) ==
  IF origin.scope \in SUB_SCOPES THEN <<origin.scope>> \o origin.sub \o origin.name
                                 ELSE <<origin.scope>> \o origin.name

SegmentMatches(pattern, value) ==
  \/ pattern = value
  \/ pattern \in Globs /\ value \in Expand[pattern]

MatchesSelector(selector, origin) ==
  /\ selector.scope = origin.scope
  /\ SegmentMatches(selector.sub, origin.sub)
  /\ SegmentMatches(selector.name, origin.name)

MatchesAny(selectors, origin) == \E s \in selectors : MatchesSelector(s, origin)

---------------------------------------------------------------------------
(* src is a family of assembled tools, src[i] = [origin, ask, ...]: the    *)
(* same origin may come twice, and each is an entry of its own.            *)

\* resolvePermissions: (allow \cup ask) minus deny, human tools exempt.
ResolveAllowed(src, permissions) ==
  {i \in DOMAIN src :
     LET o == src[i].origin IN
     \/ o.scope = "human"
     \/ /\ \/ MatchesAny(permissions.ask, o)
           \/ permissions.allow = {}
           \/ MatchesAny(permissions.allow, o)
        /\ ~ MatchesAny(permissions.deny, o)}

ResolveGated(src, permissions) ==
  {LeafName(src[i].origin) : i \in {j \in ResolveAllowed(src, permissions) :
     /\ src[j].origin.scope # "human"
     /\ MatchesAny(permissions.ask, src[j].origin)}}

\* A selector without a '*'.
Exact(selectors) == {s \in selectors : s.name \notin Globs /\ s.sub \notin Globs}

\* Mutant: any selector that allows the tool opts it out, globs included.
GlobsOptOut(src, permissions) ==
  {LeafName(src[i].origin) : i \in {j \in ResolveAllowed(src, permissions) :
     /\ src[j].ask
     /\ \/ ~ MatchesAny(permissions.allow, src[j].origin)
        \/ MatchesAny(permissions.ask, src[j].origin)}}

\* gateAskDefaults: a tool defined with ask is gated too, unless the
\* configuration allows it by its exact name and does not ask.
GateAskDefaults(src, permissions) ==
  {LeafName(src[i].origin) : i \in {j \in ResolveAllowed(src, permissions) :
     /\ src[j].ask
     /\ \/ ~ MatchesAny(Exact(permissions.allow), src[j].origin)
        \/ MatchesAny(permissions.ask, src[j].origin)}}

Gated(src, permissions) == ResolveGated(src, permissions) \cup GateAskDefaults(src, permissions)

\* Two allowed entries with one leaf: assembleTools throws TOOL_NAME_COLLISION.
Collides(src, permissions) ==
  \E i, j \in ResolveAllowed(src, permissions) :
     i # j /\ LeafName(src[i].origin) = LeafName(src[j].origin)

Leaves(src, permissions) == {LeafName(src[i].origin) : i \in ResolveAllowed(src, permissions)}

\* The entry behind a leaf the model called.
EntryOf(src, permissions, leaf) ==
  CHOOSE i \in ResolveAllowed(src, permissions) : LeafName(src[i].origin) = leaf

\* What the configuration asks of one entry, read off docs/tools.md.
NeedsApproval(entry, permissions) ==
  /\ entry.origin.scope # "human"
  /\ \/ MatchesAny(permissions.ask, entry.origin)
     \/ /\ entry.ask
        /\ ~ \E s \in permissions.allow : s.sub = entry.origin.sub /\ s.name = entry.origin.name
                                            /\ s.scope = entry.origin.scope
============================================================================
