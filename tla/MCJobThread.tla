---- MODULE MCJobThread ----
EXTENDS JobThread
CONSTANTS r1, r2, x1
MCRequest == {r1, r2, x1}
MCExtension == {x1}
=============================
