-------------------------- MODULE MCSegmentDialog --------------------------
EXTENDS SegmentDialog
\* Four bits, segments of four addresses.  One interface, two in one segment, two in two
\* segments, none.
MCPlace == {<<5>>, <<5, 6>>, <<9, 5>>, <<>>}
\* The first segment by one of its hosts, with and without a prefix; the second; a prefix
\* too long; the other family without a prefix; no address.
MCTyped == {[network |-> 6, prefix |-> 2], [network |-> 9, prefix |-> 2],
            [network |-> 7, prefix |-> NoPrefix], [network |-> 9, prefix |-> 5],
            [network |-> V6, prefix |-> NoPrefix], [network |-> NoAddress, prefix |-> 2]}
=============================================================================
