---------------------------- MODULE MCForwarding ----------------------------
EXTENDS Forwarding
CONSTANTS a, b, c

\* A line: routes of one, two and three hops, and loops of two motes.
MCLinks == {{Root, a}, {a, b}, {b, c}}
=============================================================================
