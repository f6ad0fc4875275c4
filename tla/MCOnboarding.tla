---- MODULE MCOnboarding ----
EXTENDS Onboarding
====
