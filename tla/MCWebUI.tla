------------------------------- MODULE MCWebUI -------------------------------
\* The browser tab on small sets of sessions, answers, directories and projects.
EXTENDS WebUI
=============================================================================
