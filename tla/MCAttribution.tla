---------------------------- MODULE MCAttribution ----------------------------
EXTENDS Attribution, TLC

CONSTANTS e1, e2, b1, b2, u1, u2, h1

\* One URL names its video, the other does not, and so does one poster.
MCUrlHints == u1 :> {h1} @@ u2 :> {}
MCPosterHints == e1 :> {} @@ e2 :> {h1}
=============================================================================
