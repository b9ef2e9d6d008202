---------------------------- MODULE MCAutomation ----------------------------
(* Small instances of Automation for TLC.                                  *)
EXTENDS Automation

CONSTANTS click, scroll, preview, before

(* A step that overrides the script's budget, and one that does not.  Two  *)
(* stalls need six actions: the claims and nudges at the end count too.    *)
TwoBudgets == <<3, 1>>
SomeTools == {click, scroll, preview}
OneScroll == {scroll}
OnePreview == {preview}
(* A screen that stays as it is: the case with the most stalls.            *)
OneScreen == {before}
=============================================================================
