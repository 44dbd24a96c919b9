------------------------------ MODULE MCRofConn ------------------------------
(* Instances of RofConn for TLC. *)
EXTENDS RofConn

MCVersions == {OFP10_VERSION, OFP13_VERSION}
MCBitmap == {OFP10_VERSION, OFP13_VERSION}
\* A 1.3 peer, a 1.0 peer, and a 1.3 peer whose bitmap has no version at all.
MCHellos == {[version |-> OFP13_VERSION, bitmaps |-> {{OFP13_VERSION}}],
             [version |-> OFP10_VERSION, bitmaps |-> {}],
             [version |-> OFP13_VERSION, bitmaps |-> {{}}]}

=============================================================================
