-------------------------- MODULE MCClipboardSync --------------------------
EXTENDS ClipboardSync

CONSTANTS p1, p2, p3

\* none, one or two of the peers go through wl-paste and wl-copy; otherwise the peers
\* are alike
Mixes == {f \in [Peer -> Program] :
  /\ f[p1] \in {"cli", "windows"}
  /\ f[p2] \in {"wayland", "windows"} /\ (f[p1] = "windows" => f[p2] = "windows")
  /\ f[p3] = "windows"}
=============================================================================
