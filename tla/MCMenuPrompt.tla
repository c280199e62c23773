---- MODULE MCMenuPrompt ----
EXTENDS MenuPrompt
====
