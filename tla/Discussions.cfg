SPECIFICATION Spec
CONSTANTS
  an = an
  binh = binh
  chi = chi
  Staff = {an, binh, chi}
  Officers = {chi}
  Heads = {binh}
  Lecturers = {an}
  Teaching = {}
  Writers = {an, binh}
  Readers = {an, chi}
  Mentions <- MCMentions
  MaxMessages = 2
  MaxChanges = 2
  MaxFaults = 1
INVARIANTS
  TypeOK
  RecallHides
PROPERTIES
  ToldWereInScope
  ParticipantsTold
