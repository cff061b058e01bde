------------------------------ MODULE MCGitPs -------------------------------
EXTENDS GitPs
=============================================================================
