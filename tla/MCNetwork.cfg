SPECIFICATION Spec
CONSTANTS
  Text = {"home", "cabin"}
  Secrets <- MCSecrets
  Forms <- MCForms
INVARIANTS TypeOK StoredAsAsked ClientIsCurrent
