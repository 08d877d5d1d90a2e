----------------------------- MODULE MCDiscovery ------------------------------
(***************************************************************************)
(* The inventory for TLC: an agent found by a dependency and by its        *)
(* configuration, one in a catalog and one found last, when there may be   *)
(* no room left for it; approvals of both, one that ends, one that is      *)
(* suspended, and one nobody filled in.                                    *)
(***************************************************************************)
EXTENDS Discovery

File(project, path, shelved, finds) ==
  [project |-> project, path |-> path, shelved |-> shelved, skipped |-> FALSE,
   large |-> FALSE, finds |-> finds]

Config(type) == [type |-> type, basis |-> "configuration_file"]
Content(type) == [type |-> type, basis |-> "dependency_or_config_indicator"]

TheWalk ==
  << File("a", "a/app", FALSE, <<Content("mcp")>>),
     File("a", "a/mcp", FALSE, <<Config("mcp"), Content("mcp")>>),
     File("cache", "cache/mcp", TRUE, <<Config("mcp")>>),
     [File("vendor", "vendor/mcp", FALSE, <<Config("mcp")>>) EXCEPT !.skipped = TRUE],
     [File("w", "w/mcp", FALSE, <<Content("crew"), Config("mcp")>>) EXCEPT !.large = TRUE] >>

Types == {"mcp", "crew"}

Approval(id, path, fingerprint) ==
  [id |-> id, type |-> "mcp", path |-> path, fingerprint |-> fingerprint,
   state |-> "", expires |-> Never, complete |-> TRUE]

OfA == Approval(NoId, "a/mcp", Anywhere)
OfW == [Approval(<<1>>, Anywhere, "w") EXCEPT !.expires = 0]

SomeEntries ==
  {OfA, [OfA EXCEPT !.state = "suspended"], OfW, [OfW EXCEPT !.complete = FALSE]}

(* An empty configuration, and one that approves an agent twice.           *)
SomeConfigs ==
  {[approved |-> <<>>, registered |-> <<>>],
   [approved |-> <<>>, registered |-> <<OfW, [OfW EXCEPT !.path = "w/mcp", !.expires = Never]>>]}

Files(app, mcp, cache, w) ==
  [root |-> "there", files |-> <<app, mcp, cache, "present", w>>]

SomeWorlds ==
  {Files(app, "present", "absent", "present") : app \in {"present", "unreadable"}}
    \cup {Files("present", mcp, "absent", "absent") : mcp \in {"absent", "unlisted"}}
    \cup {Files("absent", "present", "present", "present"),
          Files("unreadable", "unlisted", "absent", "present"),
          [Files("present", "present", "absent", "present") EXCEPT !.root = "missing"]}

=============================================================================
