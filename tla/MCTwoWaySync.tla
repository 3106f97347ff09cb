----------------------------- MODULE MCTwoWaySync -----------------------------
\* One remote collection, two collections and two contacts of the device.
EXTENDS TwoWaySync

MCLocal == 1..2
MCRow == 1..2
MCStyle == {"lists", "determines"}
=============================================================================
