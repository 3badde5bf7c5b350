----------------------------- MODULE PluginProps -----------------------------
(* What the plugin and the broker promise together. *)
EXTENDS Plugin, BrokerProps

PluginTypeOK ==
  /\ TypeOK
  /\ handle \in [Sessions -> SandboxIds \cup {None}]
  /\ step \in [Workers -> Steps] /\ seat \in [Workers -> Seat]
  /\ begun \in 0..MaxCalls /\ failed \subseteq Sessions /\ abandoned \subseteq Sessions
  /\ regranted \subseteq Sessions

ToolSteps == {"connect", "prepare", "reopen", "beat", "beating", "run", "again"}

\* A tool call works in a sandbox that was created for its session, its user or
\* its pool, whichever its requests ask for: neither the plugin's map nor a late
\* answer, a ticket served twice or a restart leads it into anybody else's.
ToolsIsolated ==
  \A w \in Workers : step[w] \in ToolSteps =>
    \E mode \in ModesOf[seat[w].s] : owner[seat[w].sb] = OwnerKey(mode, seat[w].s)

\* The session holds a lease, and on this sandbox unless one of its leases was
\* replaced: two handlers that serve tickets of the session at the same time may
\* make a sandbox each, and the lease is on the last one.
LeasedOn(s, sb) == leases[s] # None /\ (leases[s].sb = sb \/ s \in regranted)

\* A tool call works while its session holds a lease, and in the sandbox of that
\* lease unless it was replaced.  Exception: the session's last release failed.
ToolUnderLease ==
  \A w \in Workers :
    step[w] \in ToolSteps /\ seat[w].s \notin failed => LeasedOn(seat[w].s, seat[w].sb)

\* A session in the plugin's map holds a lease, on the sandbox of its handle
\* unless it was replaced.  Exception: its release is on the way, or its last
\* one failed.
MapIsLeased ==
  \A s \in Sessions :
    /\ handle[s] # None /\ s \notin failed
    /\ \A w \in Busy(s) : step[w] # "releasing"
    => LeasedOn(s, handle[s])

\* With nothing at work, a session whose release was answered holds no slot:
\* every lease belongs to a handle in the plugin's map.
LeaseWanted ==
  AllQuiet => \A s \in Leased \ (failed \cup abandoned) : handle[s] # None

\* Without faults no more sandboxes run than MAX_CONCURRENCY allows.
RunningCap == faults = 0 => Cardinality(Running) <= MaxConcurrency

\* The tool calls of a session run in one sandbox.
OneSandboxPerSession ==
  \A v, w \in Workers :
    step[v] \in {"run", "again"} /\ step[w] \in {"run", "again"} /\ seat[v].s = seat[w].s
      => seat[v].sb = seat[w].sb
=============================================================================
